---- MODULE Spec2Model ----
(***************************************************************************)
(* Model of src/app.py (thingiverse-downloader): the directory scanner     *)
(* (find_thumbnail, find_readme, find_model_files, get_model_info) and the *)
(* gallery / export code of browser_page and main that consumes it, and    *)
(* the downloader (download_and_extract, downloader_page) that fills the   *)
(* downloads directory.                                                    *)
(*                                                                         *)
(* File and directory names are sequences of one-character strings, so     *)
(* glob patterns, extensions, lower-casing and digit runs are computed on  *)
(* the characters as Python computes them.  A path is a sequence of names  *)
(* below downloads_dir; the empty path is downloads_dir itself.            *)
(***************************************************************************)
EXTENDS Integers, Sequences, FiniteSets, TLC

VARIABLES fs, dirOrder,
          t_pc, t_dir, t_id, t_result,
          r_pc, r_dir, r_path, r_content,
          f_pc, f_dir, f_result,
          view, search_text, search_query, categories, gallery,
          selected_model, export_data,
          l_name, l_hint, l_found, l_warnings, l_searched,
          geometry, finite_check,
          p_pc, p_path, p_option, p_opacity, p_loaders, p_messages, p_download, p_fig,
          server, tmp_files, d_clicks, d_url, d_batch, d_choice, d_category, d_fetched,
          d_messages, d_raised

thumbVars == <<t_pc, t_dir, t_id, t_result>>

readmeVars == <<r_pc, r_dir, r_path, r_content>>

filesVars == <<f_pc, f_dir, f_result>>

browserVars == <<view, search_text, search_query, categories, gallery, selected_model>>

lookupVars == <<l_name, l_hint, l_found, l_warnings, l_searched>>

meshVars == <<geometry, finite_check>>

previewVars == <<p_pc, p_path, p_option, p_opacity, p_loaders, p_messages, p_download, p_fig>>

downloadVars == <<server, tmp_files, d_clicks, d_url, d_batch, d_choice, d_category,
                  d_fetched, d_messages, d_raised>>

vars == <<fs, dirOrder, thumbVars, readmeVars, filesVars, browserVars, export_data,
          lookupVars, meshVars, previewVars, downloadVars>>

(***************************************************************************)
(* Characters                                                              *)
(***************************************************************************)

\* The characters that occur in the model, in ascending code-point order
\* (Python compares str by code point).
AsciiOrder ==
    <<"*", ".", "/", "0", "1", "2", "3", "4", "5", "6", "7", "8", "9", "?",
      "A", "B", "C", "D", "E", "F", "G", "H", "I", "J", "K", "L", "M",
      "N", "O", "P", "Q", "R", "S", "T", "U", "V", "W", "X", "Y", "Z",
      "[", "]", "_",
      "a", "b", "c", "d", "e", "f", "g", "h", "i", "j", "k", "l", "m",
      "n", "o", "p", "q", "r", "s", "t", "u", "v", "w", "x", "y", "z">>

\* the rank of each character in that order
OrdMap ==
    [c \in { AsciiOrder[i] : i \in 1..Len(AsciiOrder) } |->
        CHOOSE i \in 1..Len(AsciiOrder) : AsciiOrder[i] = c]

Ord(c) == OrdMap[c]

UpperChars ==
    <<"A", "B", "C", "D", "E", "F", "G", "H", "I", "J", "K", "L", "M",
      "N", "O", "P", "Q", "R", "S", "T", "U", "V", "W", "X", "Y", "Z">>

LowerChars ==
    <<"a", "b", "c", "d", "e", "f", "g", "h", "i", "j", "k", "l", "m",
      "n", "o", "p", "q", "r", "s", "t", "u", "v", "w", "x", "y", "z">>

Digits == {"0", "1", "2", "3", "4", "5", "6", "7", "8", "9"}

\* the lower-case letter of each upper-case letter
LowerMap ==
    [c \in { UpperChars[i] : i \in 1..Len(UpperChars) } |->
        LowerChars[CHOOSE i \in 1..Len(UpperChars) : UpperChars[i] = c]]

\* str.lower() on one character
LowerChar(c) == IF c \in DOMAIN LowerMap THEN LowerMap[c] ELSE c

\* str.lower()
Lower(s) == [i \in 1..Len(s) |-> LowerChar(s[i])]

\* the upper-case letter of each lower-case letter
UpperMap ==
    [c \in { LowerChars[i] : i \in 1..Len(LowerChars) } |->
        UpperChars[CHOOSE i \in 1..Len(LowerChars) : LowerChars[i] = c]]

\* str.upper()
Upper(s) == [i \in 1..Len(s) |-> IF s[i] \in DOMAIN UpperMap THEN UpperMap[s[i]] ELSE s[i]]

\* s < t for Python str (lexicographic by code point; a proper prefix is less)
RECURSIVE StrLess(_, _)
StrLess(s, t) ==
    IF t = <<>> THEN FALSE
    ELSE IF s = <<>> THEN TRUE
    ELSE IF s[1] = t[1] THEN StrLess(Tail(s), Tail(t))
    ELSE Ord(s[1]) < Ord(t[1])

\* needle in haystack (Python's substring test)
Contains(haystack, needle) ==
    \E i \in 0..Len(haystack) :
        /\ i + Len(needle) <= Len(haystack)
        /\ \A k \in 1..Len(needle) : haystack[i + k] = needle[k]

None == <<>>

\* os.path.splitext(name)[1]: from the last dot on, unless only dots precede it
Splitext(name) ==
    LET dots == { i \in 1..Len(name) : name[i] = "." }
    IN  IF dots = {} THEN <<>>
        ELSE LET d == CHOOSE i \in dots : \A j \in dots : j <= i
             IN  IF \E k \in 1..(d - 1) : name[k] # "."
                 THEN SubSeq(name, d, Len(name))
                 ELSE <<>>

(***************************************************************************)
(* Names used by the code                                                  *)
(***************************************************************************)

N_images == <<"i", "m", "a", "g", "e", "s">>
P_star_png == <<"*", ".", "p", "n", "g">>
P_star_jpg == <<"*", ".", "j", "p", "g">>
P_star_jpeg == <<"*", ".", "j", "p", "e", "g">>
P_Thumbnail == <<"*", "_", "T", "h", "u", "m", "b", "n", "a", "i", "l", "*", ".", "p", "n", "g">>
P_IdTail == <<"*", "T", "h", "u", "m", "b", "n", "a", "i", "l", "*", ".", "p", "n", "g">>

(***************************************************************************)
(* Storage: fs.dirs and fs.files are sets of paths; fs.text gives the      *)
(* bytes of a file.  fs.denied holds the paths the process has no          *)
(* permission on (mode 000: a directory can be neither listed nor          *)
(* searched, a file cannot be opened); fs.eio holds the files whose read   *)
(* fails with an I/O error.  dirOrder is the order in which the storage    *)
(* lists directory entries (os.listdir / os.scandir order is arbitrary).   *)
(***************************************************************************)

\* stat(p) succeeds: every directory above p can be searched
Searchable(f, p) == \A i \in 0..(Len(p) - 1) : SubSeq(p, 1, i) \notin f.denied

\* os.path.exists(p): False when stat fails
Exists(f, p) == p \in f.dirs \cup f.files /\ Searchable(f, p)

\* os.path.isdir(p): False when stat fails
IsDir(f, p) == p \in f.dirs /\ Searchable(f, p)

Front(p) == SubSeq(p, 1, Len(p) - 1)

Last(p) == p[Len(p)]

\* os.listdir(p) raises: p is no directory, cannot be reached or cannot be
\* listed
ListDirFails(f, p) == ~IsDir(f, p) \/ p \in f.denied

\* the names a listing of p returns, as a set; glob and os.walk take a
\* failed listing as an empty one
ListDir(f, p) ==
    IF ListDirFails(f, p) THEN {}
    ELSE { Last(q) : q \in { q \in f.dirs \cup f.files :
                               Len(q) = Len(p) + 1 /\ Front(q) = p } }

\* os.path.join of the components, as one string
RECURSIVE PathStr(_)
PathStr(p) ==
    IF p = <<>> THEN <<>>
    ELSE IF Len(p) = 1 THEN p[1]
    ELSE PathStr(Front(p)) \o <<"/">> \o Last(p)

\* list.sort() followed by [0] on a non-empty list of path strings
SortedFirst(S) ==
    CHOOSE p \in S : \A q \in S : q = p \/ StrLess(PathStr(p), PathStr(q))

(***************************************************************************)
(* glob.glob (non-recursive), fnmatch                                      *)
(***************************************************************************)

\* glob.has_magic
HasMagic(s) == \E i \in 1..Len(s) : s[i] \in {"*", "?", "["}

\* fnmatch.translate: the index of the "]" closing the class opened at pat[j],
\* or 0 when there is none (the "[" is then a literal)
ClassEnd(pat, j) ==
    LET neg == j + 1 <= Len(pat) /\ pat[j + 1] = "!"
        s0 == IF neg THEN j + 2 ELSE j + 1
        s1 == IF s0 <= Len(pat) /\ pat[s0] = "]" THEN s0 + 1 ELSE s0
        ends == { k \in s1..Len(pat) : pat[k] = "]" }
    IN  IF ends = {} THEN 0 ELSE CHOOSE k \in ends : \A m \in ends : k <= m

\* fnmatch.fnmatchcase(name[i..], pat[j..]); the classes of the model hold
\* plain characters only (no ranges)
RECURSIVE MatchFrom(_, _, _, _)
MatchFrom(name, i, pat, j) ==
    IF j > Len(pat) THEN i > Len(name)
    ELSE IF pat[j] = "*"
         THEN \/ MatchFrom(name, i, pat, j + 1)
              \/ i <= Len(name) /\ MatchFrom(name, i + 1, pat, j)
    ELSE IF pat[j] = "?"
         THEN i <= Len(name) /\ MatchFrom(name, i + 1, pat, j + 1)
    ELSE IF pat[j] = "[" /\ ClassEnd(pat, j) # 0
         THEN LET k == ClassEnd(pat, j)
                  neg == pat[j + 1] = "!"
                  first == IF neg THEN j + 2 ELSE j + 1
                  members == { pat[x] : x \in first..(k - 1) }
              IN  /\ i <= Len(name)
                  /\ (name[i] \in members) # neg
                  /\ MatchFrom(name, i + 1, pat, k + 1)
    ELSE i <= Len(name) /\ name[i] = pat[j] /\ MatchFrom(name, i + 1, pat, j + 1)

Fnmatch(name, pat) == MatchFrom(name, 1, pat, 1)

\* glob._ishidden
IsHidden(s) == Len(s) > 0 /\ s[1] = "."

\* glob._glob1: the entries of directory d that match pat; a dot-file is
\* listed only for a pattern that itself starts with a dot
Glob1(f, d, pat, dironly) ==
    { n \in ListDir(f, d) :
        /\ IsHidden(pat) \/ ~IsHidden(n)
        /\ Fnmatch(n, pat)
        /\ dironly => IsDir(f, d \o <<n>>) }

\* glob._iglob on a directory path: the directories the path denotes.  A
\* component with a magic character is itself a pattern.
RECURSIVE GlobDirs(_, _)
GlobDirs(f, p) ==
    IF p = <<>> THEN {<<>>}
    ELSE UNION { IF HasMagic(Last(p))
                 THEN { d \o <<n>> : n \in Glob1(f, d, Last(p), TRUE) }
                 ELSE IF IsDir(f, d \o <<Last(p)>>) THEN {d \o <<Last(p)>>} ELSE {}
                 : d \in GlobDirs(f, Front(p)) }

\* glob.glob(os.path.join(directory, pattern)), pattern with a wildcard
Glob(f, directory, pattern) ==
    UNION { { d \o <<n>> : n \in Glob1(f, d, pattern, FALSE) }
            : d \in GlobDirs(f, directory) }

(***************************************************************************)
(* Thumbnail discovery                                                     *)
(***************************************************************************)

find_first_match(f, directory, pattern) ==
    LET matches == Glob(f, directory, pattern)
    IN  IF matches # {} THEN SortedFirst(matches) ELSE None

find_in_images_dir(f, directory) ==
    LET images_dir == directory \o <<N_images>>
        image_files == Glob(f, images_dir, P_star_png)
                         \cup Glob(f, images_dir, P_star_jpg)
                         \cup Glob(f, images_dir, P_star_jpeg)
    IN  IF ~Exists(f, images_dir) THEN None
        ELSE IF image_files # {} THEN SortedFirst(image_files)
        ELSE None

\* the four lambdas of find_thumbnail, by position
Strategy(f, directory, thing_id, k) ==
    CASE k = 1 -> find_in_images_dir(f, directory)
      [] k = 2 -> find_first_match(f, directory, P_Thumbnail)
      [] k = 3 -> find_first_match(f, directory, <<"*">> \o thing_id \o P_IdTail)
      [] k = 4 -> find_first_match(f, directory, P_star_png)

find_thumbnail(f, directory, thing_id) ==
    LET hits == { k \in 1..4 : Strategy(f, directory, thing_id, k) # None }
    IN  IF hits = {} THEN None
        ELSE Strategy(f, directory, thing_id, CHOOSE k \in hits : \A m \in hits : k <= m)

\* a variant for the pattern (\d): the first digit alone
FirstDigitRun_single(name) ==
    LET starts == { i \in 1..Len(name) : name[i] \in Digits }
    IN  IF starts = {} THEN None
        ELSE <<name[CHOOSE i \in starts : \A j \in starts : i <= j]>>

\* re.search(r'(\d+)', model_name): the leftmost, longest run of digits,
\* None when there is no digit
FirstDigitRun(name) ==
    LET starts == { i \in 1..Len(name) : name[i] \in Digits }
    IN  IF starts = {} THEN None
        ELSE LET b == CHOOSE i \in starts : \A j \in starts : i <= j
                 stops == { j \in b..Len(name) : j = Len(name) \/ name[j + 1] \notin Digits }
                 e == CHOOSE j \in stops : \A m \in stops : j <= m
             IN  SubSeq(name, b, e)

(***************************************************************************)
(* os.walk                                                                 *)
(***************************************************************************)

\* the members of S in the order the storage lists them
RECURSIVE InOrder(_, _)
InOrder(S, ord) ==
    IF ord = <<>> THEN <<>>
    ELSE (IF Head(ord) \in S THEN <<Head(ord)>> ELSE <<>>) \o InOrder(S, Tail(ord))

\* the paths of all files os.walk(top) yields, in the order the loops
\* "for root, _, files in os.walk(top): for file in files" meet them: the
\* files of top first, then the walk of each subdirectory in listing order
RECURSIVE WalkFiles(_, _, _)
RECURSIVE WalkEach(_, _, _, _)
WalkFiles(f, ord, top) ==
    IF ~IsDir(f, top) THEN <<>>
    ELSE LET names == InOrder(ListDir(f, top), ord)
             files == SelectSeq(names, LAMBDA n : top \o <<n>> \in f.files)
             dirs == SelectSeq(names, LAMBDA n : top \o <<n>> \in f.dirs)
         IN  [i \in 1..Len(files) |-> top \o <<files[i]>>] \o WalkEach(f, ord, top, dirs)

WalkEach(f, ord, top, dirs) ==
    IF dirs = <<>> THEN <<>>
    ELSE WalkFiles(f, ord, top \o <<Head(dirs)>>) \o WalkEach(f, ord, top, Tail(dirs))

(***************************************************************************)
(* Description discovery                                                   *)
(***************************************************************************)

F_README_txt == <<"R", "E", "A", "D", "M", "E", ".", "t", "x", "t">>
F_readme_txt == <<"r", "e", "a", "d", "m", "e", ".", "t", "x", "t">>
F_ReadMe_txt == <<"R", "e", "a", "d", "M", "e", ".", "t", "x", "t">>
F_Readme_txt == <<"R", "e", "a", "d", "m", "e", ".", "t", "x", "t">>
F_README_md == <<"R", "E", "A", "D", "M", "E", ".", "m", "d">>
F_readme_md == <<"r", "e", "a", "d", "m", "e", ".", "m", "d">>
F_ReadMe_md == <<"R", "e", "a", "d", "M", "e", ".", "m", "d">>
F_Readme_md == <<"R", "e", "a", "d", "m", "e", ".", "m", "d">>
F_instructions_txt == <<"i", "n", "s", "t", "r", "u", "c", "t", "i", "o", "n", "s", ".", "t", "x", "t">>
F_Instructions_txt == <<"I", "n", "s", "t", "r", "u", "c", "t", "i", "o", "n", "s", ".", "t", "x", "t">>
F_description_txt == <<"d", "e", "s", "c", "r", "i", "p", "t", "i", "o", "n", ".", "t", "x", "t">>
F_Description_txt == <<"D", "e", "s", "c", "r", "i", "p", "t", "i", "o", "n", ".", "t", "x", "t">>

readme_patterns ==
    <<F_README_txt, F_readme_txt, F_ReadMe_txt, F_Readme_txt,
      F_README_md, F_readme_md, F_ReadMe_md, F_Readme_md,
      F_instructions_txt, F_Instructions_txt,
      F_description_txt, F_Description_txt>>

lowercase_patterns == { Lower(readme_patterns[i]) : i \in 1..Len(readme_patterns) }

\* a variant that compares the names of the walk as they are spelled
find_readme_walk_exact(f, ord, directory) ==
    LET walk == WalkFiles(f, ord, directory)
        hits == { i \in 1..Len(walk) :
                    \E k \in 1..Len(readme_patterns) : Last(walk[i]) = readme_patterns[k] }
    IN  IF hits = {} THEN None
        ELSE walk[CHOOSE i \in hits : \A j \in hits : i <= j]

\* Strategy 2 of find_readme: the first file of the walk whose lowered name
\* is a lowered pattern
find_readme_walk(f, ord, directory) ==
    LET walk == WalkFiles(f, ord, directory)
        hits == { i \in 1..Len(walk) : Lower(Last(walk[i])) \in lowercase_patterns }
    IN  IF hits = {} THEN None
        ELSE walk[CHOOSE i \in hits : \A j \in hits : i <= j]

\* a variant without the root check of strategy 1
find_readme_no_root_check(f, ord, directory) == find_readme_walk(f, ord, directory)

find_readme(f, ord, directory) ==
    LET present == { i \in 1..Len(readme_patterns) :
                       Exists(f, directory \o <<readme_patterns[i]>>) }
    IN  IF present # {}
        THEN directory \o <<readme_patterns[CHOOSE i \in present : \A j \in present : i <= j]>>
        ELSE find_readme_walk(f, ord, directory)

ErrorPrefix == <<"E", "r", "r", "o", "r", " ", "r", "e", "a", "d", "i", "n", "g", " ", "R", "E", "A", "D", "M", "E", ":", " ">>
IsADirectoryMsg == <<"[", "E", "r", "r", "n", "o", " ", "2", "1", "]", " ", "I", "s", " ", "a", " ", "d", "i", "r", "e", "c", "t", "o", "r", "y", ":", " ", "'">>
DownloadsDirStr == <<"d", "o", "w", "n", "l", "o", "a", "d", "s">>

PermissionDeniedMsg == <<"[", "E", "r", "r", "n", "o", " ", "1", "3", "]", " ", "P", "e", "r", "m", "i", "s", "s", "i", "o", "n", " ", "d", "e", "n", "i", "e", "d", ":", " ", "'">>
InputOutputMsg == <<"[", "E", "r", "r", "n", "o", " ", "5", "]", " ", "I", "n", "p", "u", "t", "/", "o", "u", "t", "p", "u", "t", " ", "e", "r", "r", "o", "r">>

\* bytes that occur in no UTF-8 encoding, written by their value, and the
\* character U+FFFD
InvalidBytes == {"0xFE", "0xFF"}
Replacement == "U+FFFD"

\* a variant that drops the bytes it cannot decode (errors='ignore')
Decode_ignore(bytes) == SelectSeq(bytes, LAMBDA b : b \notin InvalidBytes)

\* bytes.decode('utf-8', errors='replace') of ASCII text with stray invalid
\* bytes: each of them becomes one U+FFFD
Decode(bytes) ==
    [i \in 1..Len(bytes) |-> IF bytes[i] \in InvalidBytes THEN Replacement ELSE bytes[i]]

\* str(e) of the OSError that open() or read() of path raises, "" when
\* there is none (the path is printed from downloads_dir on)
ReadError(f, path) ==
    LET quoted == DownloadsDirStr \o <<"/">> \o PathStr(path) \o <<"'">>
    IN  IF path \in f.denied THEN PermissionDeniedMsg \o quoted
        ELSE IF path \in f.dirs THEN IsADirectoryMsg \o quoted
        ELSE IF path \in f.eio THEN InputOutputMsg
        ELSE <<>>

\* lines 451-455: open(readme_path, errors='replace').read(), or the text
\* the except branch builds
ReadText(f, path) ==
    IF ReadError(f, path) # <<>> THEN ErrorPrefix \o ReadError(f, path)
    ELSE Decode(f.text[path])

\* get_readme_content: (readme_path, readme_content)
get_readme_content(f, ord, directory) ==
    LET readme_path == find_readme(f, ord, directory)
    IN  [path |-> readme_path,
         content |-> IF readme_path # None THEN ReadText(f, readme_path) ELSE <<>>]

(***************************************************************************)
(* Model-file enumeration                                                  *)
(***************************************************************************)

E_stl == <<".", "s", "t", "l">>
E_obj == <<".", "o", "b", "j">>
E_3mf == <<".", "3", "m", "f">>

\* AppConfig.model_extensions
model_extensions == {E_stl, E_obj, E_3mf}

\* os.path.relpath(abs_path, directory) for a path below directory
Relpath(abs_path, directory) == SubSeq(abs_path, Len(directory) + 1, Len(abs_path))

\* a variant that compares the extension as it is spelled
find_model_files_exact(f, ord, directory) ==
    LET walk == WalkFiles(f, ord, directory)
        kept == SelectSeq(walk, LAMBDA p : Splitext(Last(p)) \in model_extensions)
    IN  [i \in 1..Len(kept) |-> [rel |-> Relpath(kept[i], directory), abs |-> kept[i]]]

find_model_files(f, ord, directory) ==
    LET walk == WalkFiles(f, ord, directory)
        kept == SelectSeq(walk, LAMBDA p : Lower(Splitext(Last(p))) \in model_extensions)
    IN  [i \in 1..Len(kept) |-> [rel |-> Relpath(kept[i], directory), abs |-> kept[i]]]

(***************************************************************************)
(* get_model_info, the gallery of browser_page, the export of main         *)
(***************************************************************************)

\* a variant that counts one file too many
get_model_info_miscount(f, ord, model_path, model_name) ==
    LET thing_id == FirstDigitRun(model_name)
        model_files == find_model_files(f, ord, model_path)
        readme == get_readme_content(f, ord, model_path)
    IN  [name |-> model_name,
         path |-> model_path,
         thing_id |-> thing_id,
         thumbnail_path |-> find_thumbnail(f, model_path,
                                           IF thing_id # None THEN thing_id ELSE <<>>),
         model_files |-> model_files,
         model_count |-> Len(model_files) + 1,
         readme_path |-> readme.path,
         readme_content |-> readme.content]

get_model_info(f, ord, model_path, model_name) ==
    LET thing_id == FirstDigitRun(model_name)
        model_files == find_model_files(f, ord, model_path)
        readme == get_readme_content(f, ord, model_path)
    IN  [name |-> model_name,
         path |-> model_path,
         thing_id |-> thing_id,
         thumbnail_path |-> find_thumbnail(f, model_path,
                                           IF thing_id # None THEN thing_id ELSE <<>>),
         model_files |-> model_files,
         model_count |-> Len(model_files),
         readme_path |-> readme.path,
         readme_content |-> readme.content]

\* model_info['category'] = category
WithCategory(model_info, category) == ("category" :> category) @@ model_info

\* os.listdir(path) in storage order, and its subdirectories
ListDirSeq(f, ord, path) == InOrder(ListDir(f, path), ord)

SubDirs(f, ord, path) ==
    SelectSeq(ListDirSeq(f, ord, path), LAMBDA d : IsDir(f, path \o <<d>>))

\* a variant that sorts in descending order
RECURSIVE Sorted_descending(_)
Sorted_descending(S) ==
    IF S = {} THEN <<>>
    ELSE LET m == CHOOSE x \in S : \A y \in S \ {x} : StrLess(y, x)
         IN  <<m>> \o Sorted_descending(S \ {m})

\* sorted(names)
RECURSIVE Sorted(_)
Sorted(S) ==
    IF S = {} THEN <<>>
    ELSE LET m == CHOOSE x \in S : \A y \in S \ {x} : StrLess(x, y)
         IN  <<m>> \o Sorted(S \ {m})

Range(sq) == { sq[i] : i \in DOMAIN sq }

\* a variant that searches the name only
model_matches_name_only(model_info, query) ==
    query = <<>> \/ Contains(Lower(model_info.name), query)

\* lines 875-893: does the model pass the search filter
model_matches(model_info, query) ==
    \/ query = <<>>
    \/ Contains(Lower(model_info.name), query)
    \/ model_info.thing_id # None /\ Contains(Lower(model_info.thing_id), query)
    \/ model_info.readme_content # <<>>
         /\ Contains(Lower(model_info.readme_content), query)

\* lines 866-893: category_models of one category
CategoryModels(f, ord, category, model_dirs, query) ==
    LET infos == [i \in 1..Len(model_dirs) |->
                    WithCategory(get_model_info(f, ord, <<category, model_dirs[i]>>,
                                                model_dirs[i]),
                                 category)]
    IN  SelectSeq(infos, LAMBDA m : model_matches(m, query))

\* a variant that also lists a category without model directories
GalleryOf_all(f, ord, cats, query) ==
    [i \in 1..Len(cats) |->
        [category |-> cats[i],
         model_dirs |-> SubDirs(f, ord, <<cats[i]>>),
         category_models |-> CategoryModels(f, ord, cats[i],
                                            SubDirs(f, ord, <<cats[i]>>), query)]]

\* lines 848-898: what the gallery shows for the categories cats, already
\* sorted: one block per category that has model directories
GalleryOf(f, ord, cats, query) ==
    LET shown == SelectSeq(cats, LAMBDA c : SubDirs(f, ord, <<c>>) # <<>>)
    IN  [i \in 1..Len(shown) |->
            [category |-> shown[i],
             model_dirs |-> SubDirs(f, ord, <<shown[i]>>),
             category_models |-> CategoryModels(f, ord, shown[i],
                                                SubDirs(f, ord, <<shown[i]>>), query)]]

\* main, lines 975-994: export_data["categories"]
ExportOf(f, ord) ==
    LET cats == Range(SubDirs(f, ord, <<>>))
    IN  [c \in cats |->
            LET models == SubDirs(f, ord, <<c>>)
            IN  [i \in 1..Len(models) |->
                    LET model_info == get_model_info(f, ord, <<c, models[i]>>, models[i])
                    IN  [name |-> models[i],
                         thing_id |-> model_info.thing_id,
                         model_count |-> model_info.model_count,
                         path |-> <<c, models[i]>>,
                         download_date |-> <<>>]]]

(***************************************************************************)
(* browser_page, lines 576-610: lookup of a model by name                  *)
(***************************************************************************)

\* a variant that never finds the model in the hinted category
LookupInHint_never(f, selected_model_name, selected_category) == FALSE

\* lines 581-589: is the named entry found in the hinted category
LookupInHint(f, selected_model_name, selected_category) ==
    /\ selected_category # None
    /\ Exists(f, <<>>)
    /\ IsDir(f, <<selected_category>>)
    /\ Exists(f, <<selected_category, selected_model_name>>)

\* lines 596-606: the loop over os.listdir(downloads_dir), left at the first
\* category directory in which the named entry exists
LookupAll(f, ord, selected_model_name) ==
    LET listing == IF Exists(f, <<>>) THEN ListDirSeq(f, ord, <<>>) ELSE <<>>
        hits == { i \in 1..Len(listing) :
                    /\ IsDir(f, <<listing[i]>>)
                    /\ Exists(f, <<listing[i], selected_model_name>>) }
    IN  IF hits = {}
        THEN [found |-> FALSE, category |-> None, searched |-> listing]
        ELSE LET h == CHOOSE i \in hits : \A j \in hits : i <= j
             IN  [found |-> TRUE, category |-> listing[h],
                  searched |-> SubSeq(listing, 1, h)]

\* lines 577-610: found, the category of the match, the warnings shown and
\* the entries of downloads_dir the loop looked at
Lookup(f, ord, selected_model_name, selected_category) ==
    IF LookupInHint(f, selected_model_name, selected_category)
    THEN [found |-> TRUE, category |-> selected_category, warnings |-> <<>>,
          searched |-> <<>>]
    ELSE LET all == LookupAll(f, ord, selected_model_name)
             hint_warning ==
                 IF selected_category # None
                 THEN <<[kind |-> "not_in_category", name |-> selected_model_name,
                         category |-> selected_category]>>
                 ELSE <<>>
             any_warning ==
                 IF ~all.found
                 THEN <<[kind |-> "not_in_any", name |-> selected_model_name,
                         category |-> None]>>
                 ELSE <<>>
         IN  [found |-> all.found, category |-> all.category,
              warnings |-> hint_warning \o any_warning, searched |-> all.searched]

(***************************************************************************)
(* browser_page, lines 693-767: the STL loaders and the normalization      *)
(*                                                                         *)
(* A vertex is a triple of integers.  What a geometry file holds is a      *)
(* record: its triangles (triples of vertices), whether trimesh.load       *)
(* accepts the file and whether numpy-stl's Mesh.from_file accepts it.     *)
(* Coordinates after the normalization are fractions: integer numerators   *)
(* over one denominator den; den = 0 stands for the non-finite values     *)
(* (inf, nan) that a division by a zero numpy float produces.              *)
(***************************************************************************)

VSub(a, b) == <<a[1] - b[1], a[2] - b[2], a[3] - b[3]>>

VScale(k, a) == <<k * a[1], k * a[2], k * a[3]>>

RECURSIVE SumInts(_)
SumInts(sq) == IF sq = <<>> THEN 0 ELSE Head(sq) + SumInts(Tail(sq))

MaxOfSet(S) == CHOOSE m \in S : \A n \in S : n <= m

MinOfSet(S) == CHOOSE m \in S : \A n \in S : m <= n

\* the vertices of the triangles, three for each, as numpy-stl lays them out
RECURSIVE FlatVertices(_)
FlatVertices(triangles) ==
    IF triangles = <<>> THEN <<>>
    ELSE Head(triangles) \o FlatVertices(Tail(triangles))

\* trimesh.load merges equal vertices
RECURSIVE MergeVertices(_)
MergeVertices(vs) ==
    IF vs = <<>> THEN <<>>
    ELSE LET front == MergeVertices(SubSeq(vs, 1, Len(vs) - 1))
             v == vs[Len(vs)]
         IN  IF v \in Range(front) THEN front ELSE Append(front, v)

Det3(a, b, c) ==
    a[1] * (b[2] * c[3] - b[3] * c[2])
      - a[2] * (b[1] * c[3] - b[3] * c[1])
      + a[3] * (b[1] * c[2] - b[2] * c[1])

\* tm_mesh.center_mass: the center of the volume the triangles enclose,
\* from the signed tetrahedra they span with the origin, as the fraction
\* n / d with d > 0; the zero vector when the volume is zero
center_mass(triangles) ==
    LET dets == [i \in 1..Len(triangles) |->
                    Det3(triangles[i][1], triangles[i][2], triangles[i][3])]
        Moment(k) == SumInts([i \in 1..Len(triangles) |->
                        dets[i] * (triangles[i][1][k] + triangles[i][2][k]
                                     + triangles[i][3][k])])
        volume6 == SumInts(dets)
    IN  IF volume6 = 0 THEN [n |-> <<0, 0, 0>>, d |-> 1]
        ELSE IF volume6 > 0
        THEN [n |-> <<Moment(1), Moment(2), Moment(3)>>, d |-> 4 * volume6]
        ELSE [n |-> <<0 - Moment(1), 0 - Moment(2), 0 - Moment(3)>>, d |-> 0 - 4 * volume6]

\* tm_mesh.extents of vertices given as numerators over one denominator
Extents(vs) ==
    [k \in 1..3 |-> MaxOfSet({ vs[i][k] : i \in DOMAIN vs })
                      - MinOfSet({ vs[i][k] : i \in DOMAIN vs })]

\* a variant that takes the extent along x
MaxExtent_first(extents) == extents[1]

\* max(tm_mesh.extents)
MaxExtent(extents) == MaxOfSet({ extents[k] : k \in 1..3 })

\* lines 699-713: trimesh.load, apply_translation(-center_mass),
\* apply_scale(100.0 / max(extents)).  raised names the call that raised.
\* The translated vertices are (d * v - n) / d; the scaled ones are
\* 100 * (d * v - n) / max extent of the numerators.  A zero max extent
\* makes the factor inf: apply_scale either rejects it (finite) or
\* multiplies by it.
TargetExtent == 100

Normalize(content, finite) ==
    IF ~content.trimesh_ok THEN [raised |-> "trimesh.load"]
    ELSE LET vs == MergeVertices(FlatVertices(content.triangles))
             c == center_mass(content.triangles)
             moved == [i \in DOMAIN vs |-> VSub(VScale(c.d, vs[i]), c.n)]
         IN  IF vs = <<>> THEN [raised |-> "max(extents)"]
             ELSE LET largest == MaxExtent(Extents(moved))
                  IN  IF largest = 0 /\ finite
                      THEN [raised |-> "apply_scale"]
                      ELSE [raised |-> "nothing",
                            vertices |-> [i \in DOMAIN moved |->
                                             VScale(TargetExtent, moved[i])],
                            den |-> largest]

\* a value interpolated into a message
ExceptionOf(call) == [kind |-> "exception", of |-> call]

FormatOf(ext) == [kind |-> "format", of |-> ext]

\* st.error / st.info / st.warning with an f-string: the constant text and
\* the values interpolated into it
Message(level, text, values) == [level |-> level, text |-> text, values |-> values]

\* the style names of the selectbox, line 805
O_Viridis == <<"V", "i", "r", "i", "d", "i", "s">>
O_Plasma == <<"P", "l", "a", "s", "m", "a">>
O_Inferno == <<"I", "n", "f", "e", "r", "n", "o">>
O_Magma == <<"M", "a", "g", "m", "a">>
O_Cividis == <<"C", "i", "v", "i", "d", "i", "s">>
O_Rainbow == <<"R", "a", "i", "n", "b", "o", "w">>
O_SolidBlue == <<"S", "o", "l", "i", "d", " ", "B", "l", "u", "e">>
O_SolidGreen == <<"S", "o", "l", "i", "d", " ", "G", "r", "e", "e", "n">>
W_Solid == <<"S", "o", "l", "i", "d">>

ColorOptions ==
    {O_Viridis, O_Plasma, O_Inferno, O_Magma, O_Cividis, O_Rainbow, O_SolidBlue, O_SolidGreen}

\* the slider of line 809, in tenths: 0.1 to 1.0 in steps of 0.1
MinOpacity == 1
MaxOpacity == 10
OpacitySteps == MinOpacity..MaxOpacity

\* the positions of the slider that are tried: both ends, one below and
\* one equal to the opacity of the fallback figure
OpacityInputs == {MinOpacity, 3, 8, MaxOpacity}

\* a property of the figure that no one has set to a color name
Unset == "unset"

\* a variant that takes the attribute as present only when it is set
HasIntensity_set(fig) == fig.intensity # None

\* hasattr(fig.data[0], 'intensity'): Mesh3d declares the property, unset
\* properties read as None
HasIntensity(fig) == "intensity" \in DOMAIN fig

\* lines 719-738: the figure of the trimesh branch (opacity in tenths)
PrimaryFigure(norm) ==
    [loader |-> "trimesh",
     vertices |-> norm.vertices,
     den |-> norm.den,
     intensity |-> [i \in DOMAIN norm.vertices |-> norm.vertices[i][3]],
     colorscale |-> O_Viridis,
     color |-> Unset,
     opacity |-> 10]

\* lines 756-767: the figure of the numpy-stl branch
FallbackFigure(content) ==
    [loader |-> "numpy-stl",
     vertices |-> FlatVertices(content.triangles),
     den |-> 1,
     intensity |-> None,
     colorscale |-> None,
     color |-> "lightblue",
     opacity |-> 8]

\* lines 811-824: the style and the opacity the user chose
ApplyStyle(fig, color_option, opacity) ==
    IF HasIntensity(fig) /\ ~Contains(color_option, W_Solid)
    THEN [fig EXCEPT !.colorscale = Lower(color_option), !.opacity = opacity]
    ELSE IF Contains(color_option, O_SolidBlue)
    THEN [fig EXCEPT !.colorscale = None, !.intensity = None,
                     !.color = "royalblue", !.opacity = opacity]
    ELSE IF Contains(color_option, O_SolidGreen)
    THEN [fig EXCEPT !.colorscale = None, !.intensity = None,
                     !.color = "mediumseagreen", !.opacity = opacity]
    ELSE fig

\* what the 3D Model Viewer tab leaves behind: the file chosen, the style
\* widgets (None when they are not drawn), the loaders called, the messages
\* shown, the file of the download button and the figure plotted
PreviewResult(path, option, opacity, loaders, messages, download, fig) ==
    [path |-> path, option |-> option, opacity |-> opacity, loaders |-> loaders,
     messages |-> messages, download |-> download, fig |-> fig]

\* a variant that sends every format to the STL loaders
UsesStlLoader_any(file_ext) == TRUE

\* line 695
UsesStlLoader(file_ext) == file_ext = E_stl

\* lines 680-840 for the k-th entry of the file selectbox
PreviewOf(model, contents, finite, k, color_option, opacity) ==
    IF model.model_files = <<>>
    THEN PreviewResult(None, None, 0, <<>>,
                       <<Message("info", "No 3D model files found in this model.", <<>>)>>,
                       None, None)
    ELSE LET selected_model_path == model.model_files[k].abs
             file_ext == Lower(Splitext(Last(selected_model_path)))
             format == FormatOf(Upper(Tail(file_ext)))
         IN  IF UsesStlLoader(file_ext)
             THEN LET content == contents[selected_model_path]
                      norm == Normalize(content, finite)
                      rendering == Message("error", "Error rendering the STL file: ",
                                           <<ExceptionOf(norm.raised)>>)
                      loading == Message("error", "Error loading 3D model file: ",
                                         <<ExceptionOf("Mesh.from_file")>>)
                  IN  IF norm.raised = "nothing"
                      THEN PreviewResult(selected_model_path, color_option, opacity,
                                         <<"trimesh">>, <<>>, selected_model_path,
                                         ApplyStyle(PrimaryFigure(norm), color_option, opacity))
                      ELSE IF content.stl_ok
                      THEN PreviewResult(selected_model_path, color_option, opacity,
                                         <<"trimesh", "numpy-stl">>, <<rendering>>,
                                         selected_model_path,
                                         ApplyStyle(FallbackFigure(content), color_option,
                                                    opacity))
                      ELSE PreviewResult(selected_model_path, None, 0,
                                         <<"trimesh", "numpy-stl">>, <<rendering, loading>>,
                                         None, None)
             ELSE PreviewResult(selected_model_path, None, 0, <<>>,
                                <<Message("info",
                                          "Preview is currently only available for download.",
                                          <<format>>)>>,
                                selected_model_path, None)

(***************************************************************************)
(* Inputs of the thumbnail scans                                           *)
(***************************************************************************)

N_Toys == <<"T", "o", "y", "s">>
N_BrT == <<"[", "T", "]">>
N_T == <<"T">>
N_thing_12345 == <<"t", "h", "i", "n", "g", "_", "1", "2", "3", "4", "5">>
N_widget == <<"w", "i", "d", "g", "e", "t">>
F_A_png == <<"A", ".", "p", "n", "g">>
F_Thumbnail_png == <<"T", "h", "u", "m", "b", "n", "a", "i", "l", ".", "p", "n", "g">>
F_x_Thumbnail_png == <<"x", "_", "T", "h", "u", "m", "b", "n", "a", "i", "l", ".", "p", "n", "g">>
F_a12345Thumbnail_png == <<"a", "1", "2", "3", "4", "5", "T", "h", "u", "m", "b", "n", "a", "i", "l", ".", "p", "n", "g">>
F_dot_a_png == <<".", "a", ".", "p", "n", "g">>
F_notes_txt == <<"n", "o", "t", "e", "s", ".", "t", "x", "t">>
F_b_png == <<"b", ".", "p", "n", "g">>
F_a_jpg == <<"a", ".", "j", "p", "g">>
F_c_jpeg == <<"c", ".", "j", "p", "e", "g">>
F_d_gif == <<"d", ".", "g", "i", "f">>

\* the largest number of entries in the scanned model's root / images directory
MaxRootFiles == 3
MaxImages == 2

BoundedSubsets(S, n) == { X \in SUBSET S : Cardinality(X) <= n }

ThumbRootNames ==
    {F_A_png, F_Thumbnail_png, F_x_Thumbnail_png, F_a12345Thumbnail_png,
     F_dot_a_png, F_notes_txt}

ThumbImageNames == {F_b_png, F_a_jpg, F_c_jpeg, F_dot_a_png, F_d_gif}

ThumbCategories == {N_Toys, N_BrT}

ThumbModels == {N_thing_12345, N_widget}

NoText(files) == [p \in files |-> <<>>]

\* One model directory cat/model with the given root entries and, when
\* hasImages, an images subdirectory; with sibling, a second category "T"
\* holds a model directory of the same name.
ThumbFs(cat, model, root, hasImages, imgs, sibling) ==
    LET dirs == {<<>>, <<cat>>, <<cat, model>>}
                  \cup (IF hasImages THEN {<<cat, model, N_images>>} ELSE {})
                  \cup (IF sibling
                        THEN {<<N_T>>, <<N_T, model>>, <<N_T, model, N_images>>}
                        ELSE {})
        files == { <<cat, model, n>> : n \in root }
                   \cup { <<cat, model, N_images, n>> : n \in imgs }
                   \cup (IF sibling
                         THEN {<<N_T, model, F_A_png>>, <<N_T, model, N_images, F_b_png>>}
                         ELSE {})
    IN  [dirs |-> dirs, files |-> files, text |-> NoText(files),
         denied |-> {}, eio |-> {}]

ThumbFsFamily ==
    UNION { { ThumbFs(cat, model, root, imgs[1], imgs[2], sibling) :
                model \in ThumbModels,
                root \in BoundedSubsets(ThumbRootNames, MaxRootFiles),
                imgs \in {<<FALSE, {}>>}
                           \cup { <<TRUE, X>> : X \in BoundedSubsets(ThumbImageNames, MaxImages) },
                sibling \in IF cat = N_BrT THEN BOOLEAN ELSE {FALSE} }
            : cat \in ThumbCategories }

\* the model directories of the storage: the subdirectories of the categories
ModelDirs(f) == { p \in f.dirs : Len(p) = 2 }

ThumbIdle == t_pc = "idle" /\ t_dir = None /\ t_id = None /\ t_result = None

ReadmeIdle == r_pc = "idle" /\ r_dir = None /\ r_path = None /\ r_content = <<>>

FilesIdle == f_pc = "idle" /\ f_dir = None /\ f_result = <<>>

\* before the first run of the page: no widget state, nothing exported
BrowserIdle ==
    /\ view = "start"
    /\ search_text = <<>>
    /\ search_query = <<>>
    /\ categories = <<>>
    /\ gallery = <<>>
    /\ selected_model = <<>>
    /\ export_data = [done |-> FALSE, categories |-> <<>>]

\* browser_page has not been called with a model name
LookupIdle ==
    /\ l_name = None /\ l_hint = None /\ l_found = FALSE
    /\ l_warnings = <<>> /\ l_searched = <<>>

\* the 3D Model Viewer tab has not been rendered
PreviewIdle ==
    /\ p_pc = "idle" /\ p_path = None /\ p_option = None /\ p_opacity = 0
    /\ p_loaders = <<>> /\ p_messages = <<>> /\ p_download = None /\ p_fig = None

\* the downloader page has not been used
DownloadIdle ==
    /\ server = <<>> /\ tmp_files = {} /\ d_clicks = 0
    /\ d_url = <<>> /\ d_batch = <<>> /\ d_choice = <<>> /\ d_category = <<>>
    /\ d_fetched = <<>> /\ d_messages = <<>> /\ d_raised = "nothing"

\* no geometry file is opened by the scans
NoMeshes == geometry = <<>> /\ finite_check = FALSE

InitThumb ==
    /\ fs \in ThumbFsFamily
    /\ dirOrder = <<>>
    /\ ThumbIdle /\ ReadmeIdle /\ FilesIdle /\ BrowserIdle
    /\ LookupIdle /\ PreviewIdle /\ DownloadIdle /\ NoMeshes

\* get_model_info, lines 394-399: the identifier is taken from the directory
\* name and find_thumbnail is called with it, or with "" when there is none
ScanThumbnail(model_path) ==
    LET thing_id == FirstDigitRun(Last(model_path))
    IN  /\ model_path \in ModelDirs(fs)
        /\ t_pc' = "done"
        /\ t_dir' = model_path
        /\ t_id' = thing_id
        /\ t_result' = find_thumbnail(fs, model_path, IF thing_id # None THEN thing_id ELSE <<>>)
        /\ UNCHANGED <<fs, dirOrder, downloadVars, meshVars, lookupVars, previewVars, readmeVars, filesVars, browserVars, export_data>>

NextThumb == \E p \in ModelDirs(fs) : ScanThumbnail(p)

SpecThumb == InitThumb /\ [][NextThumb]_vars

(***************************************************************************)
(* Inputs of the description scans                                         *)
(***************************************************************************)

F_README_TXT == <<"R", "E", "A", "D", "M", "E", ".", "T", "X", "T">>
F_info_txt == <<"i", "n", "f", "o", ".", "t", "x", "t">>
N_docs == <<"d", "o", "c", "s">>
N_extra == <<"e", "x", "t", "r", "a">>
N_more == <<"m", "o", "r", "e">>

\* the largest number of entries in the model root / in one subdirectory
MaxReadmeRoot == 2
MaxReadmeSub == 2

ReadmeRootNames == {F_readme_txt, F_README_md, F_README_TXT, F_notes_txt}

ReadmeSubNames == {F_README_TXT, F_readme_md, F_info_txt}

\* every file holds its own path as text
PathText(files) == [p \in files |-> PathStr(p)]

\* the model directory Toys/widget with root files, optional subdirectories
\* docs (with optional docs/more) and extra
ReadmeFs(root, docs, more, extra) ==
    LET m == <<N_Toys, N_widget>>
        dirs == {<<>>, <<N_Toys>>, m}
                  \cup (IF docs[1] THEN {m \o <<N_docs>>} ELSE {})
                  \cup (IF docs[1] /\ more[1] THEN {m \o <<N_docs, N_more>>} ELSE {})
                  \cup (IF extra[1] THEN {m \o <<N_extra>>} ELSE {})
        files == { m \o <<n>> : n \in root }
                   \cup { m \o <<N_docs, n>> : n \in IF docs[1] THEN docs[2] ELSE {} }
                   \cup { m \o <<N_docs, N_more, n>> :
                            n \in IF docs[1] /\ more[1] THEN more[2] ELSE {} }
                   \cup { m \o <<N_extra, n>> : n \in IF extra[1] THEN extra[2] ELSE {} }
    IN  [dirs |-> dirs, files |-> files, text |-> PathText(files),
         denied |-> {}, eio |-> {}]

OptionalDir(names, n) == {<<FALSE, {}>>} \cup { <<TRUE, X>> : X \in BoundedSubsets(names, n) }

ReadmeFsFamily ==
    { ReadmeFs(root, docs, more, extra) :
        root \in BoundedSubsets(ReadmeRootNames, MaxReadmeRoot),
        docs \in OptionalDir(ReadmeSubNames, MaxReadmeSub),
        more \in {<<FALSE, {}>>, <<TRUE, {F_readme_md}>>},
        extra \in OptionalDir(ReadmeSubNames, MaxReadmeSub) }

\* two listing orders of the storage, one the reverse of the other
ReadmeOrder ==
    <<N_docs, N_extra, N_more, F_info_txt, F_README_TXT, F_readme_md,
      F_README_md, F_readme_txt, F_notes_txt>>

Reverse(s) == [i \in 1..Len(s) |-> s[Len(s) + 1 - i]]

InitReadme ==
    /\ fs \in ReadmeFsFamily
    /\ dirOrder \in {ReadmeOrder, Reverse(ReadmeOrder)}
    /\ ThumbIdle /\ ReadmeIdle /\ FilesIdle /\ BrowserIdle
    /\ LookupIdle /\ PreviewIdle /\ DownloadIdle /\ NoMeshes

\* get_model_info, line 405
ScanReadme(model_path) ==
    LET got == get_readme_content(fs, dirOrder, model_path)
    IN  /\ model_path \in ModelDirs(fs)
        /\ r_pc' = "done"
        /\ r_dir' = model_path
        /\ r_path' = got.path
        /\ r_content' = got.content
        /\ UNCHANGED <<fs, dirOrder, downloadVars, meshVars, lookupVars, previewVars, thumbVars, filesVars, browserVars, export_data>>

NextReadme == \E p \in ModelDirs(fs) : ScanReadme(p)

SpecReadme == InitReadme /\ [][NextReadme]_vars

(***************************************************************************)
(* Inputs of the model-file enumeration                                    *)
(***************************************************************************)

F_model_stl == <<"m", "o", "d", "e", "l", ".", "s", "t", "l">>
F_Part_STL == <<"P", "a", "r", "t", ".", "S", "T", "L">>
F_spin_obj == <<"s", "p", "i", "n", ".", "o", "b", "j">>
F_part_3mf == <<"p", "a", "r", "t", ".", "3", "m", "f">>
F_dot_stl == <<".", "s", "t", "l">>
F_model_stl_bak == <<"m", "o", "d", "e", "l", ".", "s", "t", "l", ".", "b", "a", "k">>
N_files == <<"f", "i", "l", "e", "s">>
N_old_stl == <<"o", "l", "d", ".", "s", "t", "l">>

\* the largest number of files in the model root / in one subdirectory
MaxGeomRoot == 2
MaxGeomSub == 1

GeomNames ==
    {F_model_stl, F_Part_STL, F_spin_obj, F_part_3mf, F_notes_txt, F_dot_stl,
     F_model_stl_bak}

\* the model directory Toys/thing_12345 with root files, an optional
\* subdirectory files and in it an optional directory named old.stl
GeomFs(root, sub, nested) ==
    LET m == <<N_Toys, N_thing_12345>>
        dirs == {<<>>, <<N_Toys>>, m}
                  \cup (IF sub[1] THEN {m \o <<N_files>>} ELSE {})
                  \cup (IF sub[1] /\ nested[1] THEN {m \o <<N_files, N_old_stl>>} ELSE {})
        files == { m \o <<n>> : n \in root }
                   \cup { m \o <<N_files, n>> : n \in IF sub[1] THEN sub[2] ELSE {} }
                   \cup { m \o <<N_files, N_old_stl, n>> :
                            n \in IF sub[1] /\ nested[1] THEN nested[2] ELSE {} }
    IN  [dirs |-> dirs, files |-> files, text |-> NoText(files),
         denied |-> {}, eio |-> {}]

GeomFsFamily ==
    { GeomFs(root, sub, nested) :
        root \in BoundedSubsets(GeomNames, MaxGeomRoot),
        sub \in OptionalDir(GeomNames, MaxGeomSub),
        nested \in {<<FALSE, {}>>, <<TRUE, {}>>, <<TRUE, {F_Part_STL}>>,
                    <<TRUE, {F_notes_txt, F_model_stl}>>} }

GeomOrder ==
    <<N_files, F_notes_txt, F_Part_STL, N_old_stl, F_model_stl, F_dot_stl,
      F_part_3mf, F_model_stl_bak, F_spin_obj>>

InitFiles ==
    /\ fs \in GeomFsFamily
    /\ dirOrder \in {GeomOrder, Reverse(GeomOrder)}
    /\ ThumbIdle /\ ReadmeIdle /\ FilesIdle /\ BrowserIdle
    /\ LookupIdle /\ PreviewIdle /\ DownloadIdle /\ NoMeshes

\* get_model_info, line 402
ScanModelFiles(model_path) ==
    /\ model_path \in ModelDirs(fs)
    /\ f_pc' = "done"
    /\ f_dir' = model_path
    /\ f_result' = find_model_files(fs, dirOrder, model_path)
    /\ UNCHANGED <<fs, dirOrder, downloadVars, meshVars, lookupVars, previewVars, thumbVars, readmeVars, browserVars, export_data>>

NextFiles == \E p \in ModelDirs(fs) : ScanModelFiles(p)

SpecFiles == InitFiles /\ [][NextFiles]_vars

(***************************************************************************)
(* The browser page and the export over a downloads directory              *)
(***************************************************************************)

N_Uncategorized == <<"U", "n", "c", "a", "t", "e", "g", "o", "r", "i", "z", "e", "d">>
N_v2_gear_10 == <<"v", "2", "_", "g", "e", "a", "r", "_", "1", "0">>
T_GearBox == <<"P", "l", "a", "n", "e", "t", "a", "r", "y", " ", "G", "e", "a", "r", " ", "B", "o", "x">>
T_Stand == <<"p", "h", "o", "n", "e", " ", "s", "t", "a", "n", "d">>
Q_GEAR == <<"G", "E", "A", "R">>
Q_box == <<"b", "o", "x">>
Q_45 == <<"4", "5">>

\* the largest number of model directories in one category
MaxModels == 2

CatalogModels == {N_thing_12345, N_widget, N_v2_gear_10}

\* what the search box may hold
SearchTexts == {<<>>, Q_GEAR, Q_box, Q_45}

\* the content of the three model packages, below the model directory:
\* thing_12345 holds images/b.png, readme.md and model.stl; widget holds
\* spin.obj and part.3mf; v2_gear_10 holds A.png, README.TXT and
\* files/Part.STL
KitDirs(m) ==
    CASE m = N_thing_12345 -> {<<N_images>>}
      [] m = N_widget -> {}
      [] m = N_v2_gear_10 -> {<<N_files>>}

KitFiles(m) ==
    CASE m = N_thing_12345 -> {<<N_images, F_b_png>>, <<F_readme_md>>, <<F_model_stl>>}
      [] m = N_widget -> {<<F_spin_obj>>, <<F_part_3mf>>}
      [] m = N_v2_gear_10 -> {<<F_A_png>>, <<F_README_TXT>>, <<N_files, F_Part_STL>>}

KitText(p) ==
    IF Last(p) = F_readme_md THEN T_GearBox
    ELSE IF Last(p) = F_README_TXT THEN T_Stand
    ELSE <<>>

\* downloads_dir with an optional plain file, and the categories Toys and
\* Uncategorized, each optional, each with a plain file info.txt and the
\* given model directories
CatalogFs(rootFile, toys, unc) ==
    LET cats == (IF toys[1] THEN {N_Toys} ELSE {}) \cup (IF unc[1] THEN {N_Uncategorized} ELSE {})
        ModelsOf(c) == IF c = N_Toys THEN toys[2] ELSE unc[2]
        dirs == {<<>>}
                  \cup { <<c>> : c \in cats }
                  \cup UNION { { <<c, m>> : m \in ModelsOf(c) } : c \in cats }
                  \cup UNION { UNION { { <<c, m>> \o d : d \in KitDirs(m) }
                                       : m \in ModelsOf(c) } : c \in cats }
        files == (IF rootFile THEN {<<F_notes_txt>>} ELSE {})
                   \cup { <<c, F_info_txt>> : c \in cats }
                   \cup UNION { UNION { { <<c, m>> \o p : p \in KitFiles(m) }
                                        : m \in ModelsOf(c) } : c \in cats }
    IN  [dirs |-> dirs, files |-> files, text |-> [p \in files |-> KitText(p)],
         denied |-> {}, eio |-> {}]

CatalogFsFamily ==
    { CatalogFs(rootFile, toys, unc) :
        rootFile \in BOOLEAN,
        toys \in OptionalDir(CatalogModels, MaxModels),
        unc \in OptionalDir(CatalogModels \ {N_v2_gear_10}, MaxModels) }

CatalogOrder ==
    <<F_notes_txt, N_Uncategorized, N_Toys, F_info_txt, N_widget, N_v2_gear_10,
      N_thing_12345, N_images, N_files, F_readme_md, F_README_TXT, F_model_stl,
      F_Part_STL, F_spin_obj, F_part_3mf, F_A_png, F_b_png>>

\* what the geometry files hold
Content(triangles, trimesh_ok, stl_ok) ==
    [triangles |-> triangles, trimesh_ok |-> trimesh_ok, stl_ok |-> stl_ok]

\* the flat triangle (0,0,0), (2,0,0), (0,2,0)
M_Triangle == << <<<<0, 0, 0>>, <<2, 0, 0>>, <<0, 2, 0>>>> >>

\* closed tetrahedra with outward faces: extents 2, 2, 2 and 1, 2, 1
TetraOf(a, b, c) ==
    << <<a, b, c>>, <<<<0, 0, 0>>, b, a>>, <<<<0, 0, 0>>, a, c>>, <<<<0, 0, 0>>, c, b>> >>

M_Tetra == TetraOf(<<2, 0, 0>>, <<0, 2, 0>>, <<0, 0, 2>>)

M_Slab == TetraOf(<<1, 0, 0>>, <<0, 2, 0>>, <<0, 0, 1>>)

\* a closed square pyramid: base 2 x 2 in the plane z = 0, apex (1,1,2)
M_Pyramid ==
    << <<<<0, 0, 0>>, <<2, 2, 0>>, <<2, 0, 0>>>>,
       <<<<0, 0, 0>>, <<0, 2, 0>>, <<2, 2, 0>>>>,
       <<<<0, 0, 0>>, <<2, 0, 0>>, <<1, 1, 2>>>>,
       <<<<2, 0, 0>>, <<2, 2, 0>>, <<1, 1, 2>>>>,
       <<<<2, 2, 0>>, <<0, 2, 0>>, <<1, 1, 2>>>>,
       <<<<0, 2, 0>>, <<0, 0, 0>>, <<1, 1, 2>>>> >>

\* one triangle whose three vertices are the same point
M_Point == << <<<<1, 1, 1>>, <<1, 1, 1>>, <<1, 1, 1>>>> >>

\* a file that is not an STL mesh
NotStl == Content(<<>>, FALSE, FALSE)

IsGeometryFile(p) == Lower(Splitext(Last(p))) \in model_extensions

\* the content of every geometry file of f: stl_content in the STL files
GeometryOf(f, stl_content) ==
    [p \in { q \in f.files : IsGeometryFile(q) } |->
        IF Lower(Splitext(Last(p))) = E_stl THEN stl_content ELSE NotStl]

Init ==
    /\ fs \in CatalogFsFamily
    /\ dirOrder \in {CatalogOrder, Reverse(CatalogOrder)}
    /\ ThumbIdle /\ ReadmeIdle /\ FilesIdle /\ BrowserIdle
    /\ LookupIdle /\ PreviewIdle /\ DownloadIdle
    /\ geometry = GeometryOf(fs, Content(M_Tetra, TRUE, TRUE))
    /\ finite_check = TRUE

\* the viewer tab is not drawn
NoPreview ==
    /\ p_pc' = "idle" /\ p_path' = None /\ p_option' = None /\ p_opacity' = 0
    /\ p_loaders' = <<>> /\ p_messages' = <<>> /\ p_download' = None /\ p_fig' = None

\* the viewer tab is drawn for the model, with the widgets as given
ShowPreview(model, k, color_option, opacity) ==
    \E r \in {PreviewOf(model, geometry, finite_check, k, color_option, opacity)} :
        /\ p_pc' = "done"
        /\ p_path' = r.path
        /\ p_option' = r.option
        /\ p_opacity' = r.opacity
        /\ p_loaders' = r.loaders
        /\ p_messages' = r.messages
        /\ p_download' = r.download
        /\ p_fig' = r.fig

\* lines 848-853: the categories the gallery loop gets through; the
\* os.listdir(category_path) of line 852 is in no try block, so the loop ends
\* at the first category whose listing raises
ListedBeforeRaise(f, cats) ==
    LET bad == { i \in 1..Len(cats) : ListDirFails(f, <<cats[i]>>) }
    IN  IF bad = {} THEN cats
        ELSE SubSeq(cats, 1, (CHOOSE i \in bad : \A j \in bad : i <= j) - 1)

\* lines 612-927 for the selection sel: the branch taken and what it shows
\* (view "exception": line 668 raised in the detail view; view "raised":
\* line 852 raised in the gallery, the blocks drawn before it stay on the
\* page); k, color_option and opacity are what the widgets of the viewer tab
\* hold
Render(sel, text, k, color_option, opacity) ==
    LET listing == ListDirSeq(fs, dirOrder, <<>>)
        cats == SubDirs(fs, dirOrder, <<>>)
    IN  IF listing = <<>>
        THEN /\ view' = "no_downloads"
             /\ categories' = <<>>
             /\ gallery' = <<>>
             /\ search_text' = <<>>
             /\ search_query' = <<>>
             /\ NoPreview
        ELSE IF cats = <<>>
        THEN /\ view' = "no_models"
             /\ categories' = cats
             /\ gallery' = <<>>
             /\ search_text' = <<>>
             /\ search_query' = <<>>
             /\ NoPreview
        ELSE IF sel # <<>>
        THEN /\ categories' = cats
             /\ gallery' = <<>>
             /\ search_text' = <<>>
             /\ search_query' = <<>>
             /\ IF ~ListDirFails(fs, sel[1].path)
                THEN /\ view' = "detail"
                     /\ ShowPreview(sel[1], k, color_option, opacity)
                ELSE /\ view' = "exception"
                     /\ NoPreview
        ELSE /\ categories' = cats
             /\ search_text' = text
             /\ search_query' = Lower(text)
             /\ \E listed \in {ListedBeforeRaise(fs, Sorted(Range(cats)))} :
                  /\ view' = IF Len(listed) = Len(cats) THEN "gallery" ELSE "raised"
                  /\ gallery' = GalleryOf(fs, dirOrder, listed, Lower(text))
             /\ NoPreview

\* one run of browser_page(downloads_dir) with the given text in the search
\* box (lines 612-620 and 841-927); main passes no model name.  The widgets
\* of the viewer tab hold their defaults.
RenderBrowser(text) ==
    /\ Render(selected_model, text, 1, O_Viridis, MaxOpacity)
    /\ UNCHANGED <<fs, dirOrder, downloadVars, meshVars, lookupVars, thumbVars, readmeVars, filesVars,
                   selected_model, export_data>>

\* one run of browser_page in the detail view after the user has set the
\* file selectbox, the style selectbox and the opacity slider
RenderDetail(k, color_option, opacity) ==
    /\ view = "detail"
    /\ k \in DOMAIN selected_model[1].model_files
    /\ Render(selected_model, <<>>, k, color_option, opacity)
    /\ UNCHANGED <<fs, dirOrder, downloadVars, meshVars, lookupVars, thumbVars, readmeVars, filesVars,
                   selected_model, export_data>>

\* one run of browser_page(downloads_dir, selected_model_name,
\* selected_category) with an empty search box: lines 586-588 and 602-604
\* store the model that was found in the session
LookupPage(selected_model_name, selected_category) ==
    /\ l_name' = selected_model_name
    /\ l_hint' = selected_category
    /\ \E r \in {Lookup(fs, dirOrder, selected_model_name, selected_category)} :
         /\ l_found' = r.found
         /\ l_warnings' = r.warnings
         /\ l_searched' = r.searched
         /\ selected_model' =
              IF r.found
              THEN <<WithCategory(get_model_info(fs, dirOrder,
                                                 <<r.category, selected_model_name>>,
                                                 selected_model_name),
                                  r.category)>>
              ELSE selected_model
    /\ Render(selected_model', <<>>, 1, O_Viridis, MaxOpacity)
    /\ UNCHANGED <<fs, dirOrder, downloadVars, meshVars, thumbVars, readmeVars, filesVars,
                   export_data>>

\* lines 921-923: the "View Details" button of card i in block b
ViewDetails(b, i) ==
    /\ view = "gallery"
    /\ b \in DOMAIN gallery
    /\ i \in DOMAIN gallery[b].category_models
    /\ selected_model' = <<gallery[b].category_models[i]>>
    /\ view' = "start"
    /\ UNCHANGED <<fs, dirOrder, downloadVars, meshVars, lookupVars, previewVars, thumbVars, readmeVars, filesVars,
                   search_text, search_query, categories, gallery, export_data>>

\* lines 622-624: the "Back to Gallery" button
BackToGallery ==
    /\ view \in {"detail", "exception"}
    /\ selected_model' = <<>>
    /\ view' = "start"
    /\ UNCHANGED <<fs, dirOrder, downloadVars, meshVars, lookupVars, previewVars, thumbVars, readmeVars, filesVars,
                   search_text, search_query, categories, gallery, export_data>>

\* main, lines 972-994: the "Export Collection" button
ExportCollection ==
    /\ ~export_data.done
    /\ export_data' = [done |-> TRUE, categories |-> ExportOf(fs, dirOrder)]
    /\ UNCHANGED <<fs, dirOrder, downloadVars, meshVars, lookupVars, previewVars, thumbVars, readmeVars, filesVars, browserVars>>

Next ==
    \/ \E text \in SearchTexts : RenderBrowser(text)
    \/ \E b \in 1..Len(gallery) : \E i \in 1..MaxModels : ViewDetails(b, i)
    \/ BackToGallery
    \/ ExportCollection

Spec == Init /\ [][Next]_vars

(***************************************************************************)
(* browser_page called with a model name                                   *)
(***************************************************************************)

\* the model directories a category of the lookup runs may hold
LookupDirs ==
    {<<FALSE, {}>>, <<TRUE, {}>>, <<TRUE, {N_widget}>>}

LookupFsFamily ==
    { CatalogFs(TRUE, toys, unc) : toys \in LookupDirs, unc \in LookupDirs }

\* selected_model_name: a model directory, the plain file of a category, a
\* name that is nowhere
LookupNames == {N_widget, F_info_txt, N_docs}

\* selected_category: none, a category, a name that is nowhere, the plain
\* file of downloads_dir
LookupHints == {None, N_Toys, N_Uncategorized, N_docs, F_notes_txt}

InitLookup ==
    /\ fs \in LookupFsFamily
    /\ dirOrder \in {CatalogOrder, Reverse(CatalogOrder)}
    /\ ThumbIdle /\ ReadmeIdle /\ FilesIdle /\ BrowserIdle
    /\ LookupIdle /\ PreviewIdle /\ DownloadIdle
    /\ geometry = GeometryOf(fs, Content(M_Tetra, TRUE, TRUE))
    /\ finite_check = TRUE

NextLookup ==
    \/ \E name \in LookupNames : \E hint \in LookupHints : LookupPage(name, hint)
    \/ BackToGallery

SpecLookup == InitLookup /\ [][NextLookup]_vars

(***************************************************************************)
(* The 3D Model Viewer tab                                                 *)
(***************************************************************************)

\* how far a mesh is moved away from the origin
MaxShift == 1

Shifts == { <<d, 0, d>> : d \in 0..MaxShift }

VAdd(a, b) == <<a[1] + b[1], a[2] + b[2], a[3] + b[3]>>

Shift(triangles, d) ==
    [i \in DOMAIN triangles |-> [j \in 1..3 |-> VAdd(triangles[i][j], d)]]

BaseMeshes == {M_Triangle, M_Tetra, M_Slab, M_Pyramid, M_Point}

\* what Part.STL may hold: a mesh both loaders read, an STL without
\* triangles, a mesh only numpy-stl reads (trimesh.load rejects the file),
\* and a file neither loader reads
StlContents ==
    { Content(Shift(m, d), TRUE, TRUE) : m \in BaseMeshes, d \in Shifts }
      \cup { Content(<<>>, TRUE, TRUE) }
      \cup { Content(m, FALSE, TRUE) : m \in {M_Triangle, M_Pyramid} }
      \cup { Content(<<>>, FALSE, FALSE) }

\* downloads/Toys/widget with Part.STL, spin.obj and part.3mf
PreviewFs ==
    [dirs |-> {<<>>, <<N_Toys>>, <<N_Toys, N_widget>>},
     files |-> {<<N_Toys, N_widget, F_Part_STL>>, <<N_Toys, N_widget, F_spin_obj>>,
                <<N_Toys, N_widget, F_part_3mf>>},
     text |-> [p \in {<<N_Toys, N_widget, F_Part_STL>>, <<N_Toys, N_widget, F_spin_obj>>,
                      <<N_Toys, N_widget, F_part_3mf>>} |-> <<>>],
     denied |-> {}, eio |-> {}]

InitPreview ==
    /\ fs = PreviewFs
    /\ dirOrder = CatalogOrder
    /\ ThumbIdle /\ ReadmeIdle /\ FilesIdle /\ BrowserIdle
    /\ LookupIdle /\ PreviewIdle /\ DownloadIdle
    /\ \E c \in StlContents : geometry = GeometryOf(fs, c)
    /\ finite_check \in BOOLEAN

NextPreview ==
    \/ RenderBrowser(<<>>)
    \/ ViewDetails(1, 1)
    \/ BackToGallery
    \/ \E k \in 1..3 : \E color_option \in ColorOptions : \E opacity \in OpacityInputs :
         RenderDetail(k, color_option, opacity)

SpecPreview == InitPreview /\ [][NextPreview]_vars

(***************************************************************************)
(* The downloader: URL checks, download_and_extract, downloader_page       *)
(***************************************************************************)

\* the least member of a non-empty set of integers
Least(S) == CHOOSE i \in S : \A j \in S : i <= j

\* str.strip(): without leading and trailing whitespace
Whitespace == {" ", "\n", "\t", "\r"}

Strip(s) ==
    LET solid == { i \in 1..Len(s) : s[i] \notin Whitespace }
    IN  IF solid = {} THEN <<>>
        ELSE SubSeq(s, Least(solid), CHOOSE i \in solid : \A j \in solid : j <= i)

\* str.split('\n')
RECURSIVE SplitLines(_)
SplitLines(s) ==
    LET breaks == { i \in 1..Len(s) : s[i] = "\n" }
    IN  IF breaks = {} THEN <<s>>
        ELSE <<SubSeq(s, 1, Least(breaks) - 1)>>
               \o SplitLines(SubSeq(s, Least(breaks) + 1, Len(s)))

\* the offsets at which needle occurs in s
Occurrences(s, needle) ==
    { i \in 0..(Len(s) - Len(needle)) : SubSeq(s, i + 1, i + Len(needle)) = needle }

S_SchemeEnd == <<":", "/", "/">>
S_thing_colon == <<"t", "h", "i", "n", "g", ":">>
S_thing_ == <<"t", "h", "i", "n", "g", "_">>
S_None == <<"N", "o", "n", "e">>
S_dot_zip == <<".", "z", "i", "p">>
H_www_thingiverse_com == <<"w", "w", "w", ".", "t", "h", "i", "n", "g", "i", "v", "e", "r", "s", "e", ".", "c", "o", "m">>
H_thingiverse_com == <<"t", "h", "i", "n", "g", "i", "v", "e", "r", "s", "e", ".", "c", "o", "m">>

\* urlparse(url) for a URL of the form scheme://netloc/path?query#fragment,
\* and for a string without "://" (no netloc, the path is the string up to
\* the query)
urlparse(url) ==
    LET starts == Occurrences(url, S_SchemeEnd)
        from == IF starts = {} THEN 1 ELSE Least(starts) + Len(S_SchemeEnd) + 1
        After(i, stops) ==
            LET found == { j \in i..Len(url) : url[j] \in stops }
            IN  IF found = {} THEN Len(url) + 1 ELSE Least(found)
        slash == IF starts = {} THEN from ELSE After(from, {"/", "?", "#"})
    IN  [netloc |-> SubSeq(url, from, slash - 1),
         path |-> SubSeq(url, slash, After(slash, {"?", "#"}) - 1)]

\* lines 60-64
is_valid_thingiverse_url(url) ==
    /\ urlparse(url).netloc \in {H_www_thingiverse_com, H_thingiverse_com}
    /\ Contains(urlparse(url).path, S_thing_colon)

\* lines 66-71: re.search(r'thing:(\d+)', url), None without a match
extract_thing_id(url) ==
    LET hits == { i \in Occurrences(url, S_thing_colon) :
                    i + Len(S_thing_colon) + 1 <= Len(url)
                      /\ url[i + Len(S_thing_colon) + 1] \in Digits }
    IN  IF hits = {} THEN None
        ELSE LET b == Least(hits) + Len(S_thing_colon) + 1
                 e == Least({ k \in b..Len(url) : k = Len(url) \/ url[k + 1] \notin Digits })
             IN  SubSeq(url, b, e)

\* f"thing_{thing_id}" (None is printed as "None")
ThingName(thing_id) == S_thing_ \o (IF thing_id = None THEN S_None ELSE thing_id)

\* os.makedirs(path, exist_ok=True)
Makedirs(f, path) ==
    [f EXCEPT !.dirs = @ \cup { SubSeq(path, 1, i) : i \in 0..Len(path) }]

\* open(path, 'wb') and the writes: the file exists with the given bytes
WriteFile(f, path, bytes) ==
    [f EXCEPT !.files = @ \cup {path},
              !.text = (path :> bytes) @@ @]

\* os.remove(path)
RemoveFile(f, path) ==
    [f EXCEPT !.files = @ \ {path},
              !.text = [q \in (DOMAIN @) \ {path} |-> @[q]]]

\* what the archive of a thing holds: model.stl and README.txt
ArchiveFiles == {F_model_stl, F_README_txt}

\* ZipFile.extractall(extract_path)
Extractall(f, extract_path) ==
    LET made == Makedirs(f, extract_path)
        paths == { extract_path \o <<n>> : n \in ArchiveFiles }
    IN  [made EXCEPT !.files = @ \cup paths,
                     !.text = [q \in paths |-> IF Last(q) = F_README_txt THEN T_Stand ELSE <<>>]
                                @@ @]

\* What the server does with a request for the archive of a thing: "zip", a
\* zip archive; "not_zip", status 200 with a body that is no archive;
\* "http_error", a status for which raise_for_status raises; "broken", status
\* 200 and a connection that fails while the body is streamed.
Outcomes == {"zip", "not_zip", "http_error", "broken"}

\* str(e) of the exception requests raises for the outcome
RequestError(outcome) ==
    IF outcome = "http_error" THEN "HTTPError" ELSE "ConnectionError"

\* tempfile.NamedTemporaryFile picks a name that is not in use
FreshTemp(tmp) == Least({ n \in 1..(Cardinality(tmp) + 1) : n \notin tmp })

\* lines 78-99: the storage and the temporary files afterwards, and the
\* return value or the exception
download_and_extract(f, tmp, outcome, extract_path) ==
    LET created == tmp \cup {FreshTemp(tmp)}
    IN  IF outcome \in {"http_error", "broken"}
        THEN [fs |-> f, tmp |-> created, result |-> "raised", error |-> RequestError(outcome)]
        ELSE IF outcome = "zip"
        THEN [fs |-> Extractall(f, extract_path), tmp |-> created \ {FreshTemp(tmp)},
              result |-> "True", error |-> ""]
        ELSE [fs |-> f, tmp |-> created \ {FreshTemp(tmp)}, result |-> "False", error |-> ""]

S_CreateNew == <<"+", " ", "C", "r", "e", "a", "t", "e", " ", "n", "e", "w", " ", "c", "a", "t", "e", "g", "o", "r", "y">>

\* the value of a local name that was never assigned
Unbound == <<"unbound">>

\* lines 181-189: the options of the category selectbox
CategoryOptions(f) ==
    {N_Uncategorized}
      \cup (IF Exists(f, <<>>)
            THEN { item \in ListDir(f, <<>>) : IsDir(f, <<item>>) /\ item # N_Uncategorized }
            ELSE {})
      \cup {S_CreateNew}

\* lines 196-200: the category the click uses
SelectedCategory(choice, new_category) ==
    IF choice = S_CreateNew /\ new_category # <<>> THEN new_category ELSE choice

\* what the server answers for a thing; it has no thing "None"
OutcomeOf(srv, thing_id) == IF thing_id \in DOMAIN srv THEN srv[thing_id] ELSE "http_error"

\* lines 219-232: valid_urls, the validation messages, and the value the
\* local thing_id is left with
RECURSIVE Validate(_, _)
Validate(urls, thing_id) ==
    IF urls = <<>> THEN [valid_urls |-> <<>>, messages |-> <<>>, thing_id |-> thing_id]
    ELSE LET url == Head(urls)
         IN  IF Strip(url) = <<>> THEN Validate(Tail(urls), thing_id)
             ELSE IF ~is_valid_thingiverse_url(url)
             THEN LET rest == Validate(Tail(urls), thing_id)
                  IN  [rest EXCEPT !.messages =
                         <<Message("error", "Invalid URL: {url}", <<url>>)>> \o @]
             ELSE IF extract_thing_id(url) = None
             THEN LET rest == Validate(Tail(urls), None)
                  IN  [rest EXCEPT !.messages =
                         <<Message("error", "Could not extract thing ID from URL: {url}",
                                   <<url>>)>> \o @]
             ELSE LET rest == Validate(Tail(urls), extract_thing_id(url))
                  IN  [rest EXCEPT !.valid_urls =
                         <<[url |-> url, thing_id |-> extract_thing_id(url)]>> \o @]

\* lines 241-258: one round of the batch loop
BatchStep(st, srv, category_dir, thing_id) ==
    LET model_dir == category_dir \o <<ThingName(thing_id)>>
        r == download_and_extract(Makedirs(st.fs, model_dir), st.tmp,
                                  OutcomeOf(srv, thing_id), model_dir)
    IN  [fs |-> r.fs,
         tmp |-> r.tmp,
         fetched |-> Append(st.fetched, thing_id),
         messages |-> Append(st.messages,
            IF r.result # "raised"
            THEN Message("success", "Successfully downloaded and extracted thing_{thing_id}.",
                         <<thing_id>>)
            ELSE Message("error", "Error downloading thing_{thing_id}: {str(e)}",
                         <<thing_id, r.error>>))]

\* lines 241-261: the batch loop over valid_urls
RECURSIVE BatchLoop(_, _, _, _)
BatchLoop(st, srv, category_dir, valid_urls) ==
    IF valid_urls = <<>> THEN st
    ELSE BatchLoop(BatchStep(st, srv, category_dir, Head(valid_urls).thing_id),
                   srv, category_dir, Tail(valid_urls))

\* lines 280-340: the download of thing_id into the category
SingleDownload(st, srv, category_dir, thing_id) ==
    LET model_dir == category_dir \o <<ThingName(thing_id)>>
        zip_filename == model_dir \o <<ThingName(thing_id) \o S_dot_zip>>
        made == Makedirs(st.fs, model_dir)
        outcome == OutcomeOf(srv, thing_id)
        failed == Message("error", "Failed to download: {str(e)}", <<RequestError(outcome)>>)
    IN  [tmp |-> st.tmp,
         fetched |-> Append(st.fetched, thing_id),
         fs |-> CASE outcome = "http_error" -> made
                  [] outcome = "broken" -> WriteFile(made, zip_filename, <<>>)
                  [] outcome = "not_zip" -> WriteFile(made, zip_filename, <<>>)
                  [] outcome = "zip" ->
                       RemoveFile(Extractall(WriteFile(made, zip_filename, <<>>), model_dir),
                                  zip_filename),
         messages |-> st.messages \o
            (CASE outcome = "http_error" -> <<failed>>
               [] outcome = "broken" -> <<failed>>
               [] outcome = "not_zip" ->
                    <<Message("error", "Downloaded file is not a valid ZIP file", <<>>)>>
               [] outcome = "zip" ->
                    <<Message("success",
                              "Files successfully downloaded and extracted to {model_dir}",
                              <<model_dir>>),
                      Message("info",
                              "You can find your downloaded model in the Browser tab under the '{selected_category}' category.",
                              <<category_dir[1]>>)>>)]

\* lines 203-340: one click of "Download and Extract" with the widgets as
\* given: the storage and the temporary files afterwards, the things
\* requested from the server in order, the messages shown, and the
\* exception that left the handler
Click(f, tmp, srv, thingiverse_url, batch_urls, selected_category) ==
    LET category_dir == <<selected_category>>
        st0 == [fs |-> Makedirs(Makedirs(f, <<>>), category_dir), tmp |-> tmp,
                fetched |-> <<>>, messages |-> <<>>]
        Returned(st, raised) ==
            [fs |-> st.fs, tmp |-> st.tmp, fetched |-> st.fetched,
             messages |-> st.messages, raised |-> raised]
        Stopped(text) ==
            Returned([st0 EXCEPT !.messages = <<Message("error", text, <<>>)>>], "nothing")
    IN  IF Strip(batch_urls) # <<>>
        THEN LET v == Validate(SplitLines(Strip(batch_urls)), Unbound)
                 found == Message("info", "Found {len(valid_urls)} valid Thingiverse URLs to download.",
                                  <<Len(v.valid_urls)>>)
                 st1 == [st0 EXCEPT !.messages = v.messages \o <<found>>]
                 st2 == IF v.valid_urls = <<>> THEN st1
                        ELSE LET looped == BatchLoop(st1, srv, category_dir, v.valid_urls)
                             IN  [looped EXCEPT !.messages =
                                    Append(@, Message("success", "Batch download complete!", <<>>))]
                 thing_id == IF v.valid_urls = <<>> THEN v.thing_id
                             ELSE v.valid_urls[Len(v.valid_urls)].thing_id
             IN  IF thing_id = Unbound
                 THEN Returned(st2, "UnboundLocalError")
                 ELSE Returned(SingleDownload(st2, srv, category_dir, thing_id), "nothing")
        ELSE IF thingiverse_url = <<>>
        THEN Stopped("Please enter a Thingiverse URL.")
        ELSE IF ~is_valid_thingiverse_url(thingiverse_url)
        THEN Stopped("Please enter a valid Thingiverse URL (e.g., https://www.thingiverse.com/thing:12345).")
        ELSE IF extract_thing_id(thingiverse_url) = None
        THEN Stopped("Could not extract thing ID from the URL.")
        ELSE Returned(SingleDownload(st0, srv, category_dir,
                                     extract_thing_id(thingiverse_url)), "nothing")

(***************************************************************************)
(* The downloader page over a server                                       *)
(***************************************************************************)

I_12345 == <<"1", "2", "3", "4", "5">>
I_7 == <<"7">>
U_12345 == <<"h", "t", "t", "p", "s", ":", "/", "/", "w", "w", "w", ".", "t", "h", "i", "n", "g", "i", "v", "e", "r", "s", "e", ".", "c", "o", "m", "/", "t", "h", "i", "n", "g", ":", "1", "2", "3", "4", "5">>
U_7 == <<"h", "t", "t", "p", "s", ":", "/", "/", "t", "h", "i", "n", "g", "i", "v", "e", "r", "s", "e", ".", "c", "o", "m", "/", "t", "h", "i", "n", "g", ":", "7">>
U_elsewhere == <<"h", "t", "t", "p", "s", ":", "/", "/", "e", "x", "a", "m", "p", "l", "e", ".", "c", "o", "m", "/", "t", "h", "i", "n", "g", ":", "7">>
U_no_id == <<"h", "t", "t", "p", "s", ":", "/", "/", "w", "w", "w", ".", "t", "h", "i", "n", "g", "i", "v", "e", "r", "s", "e", ".", "c", "o", "m", "/", "t", "h", "i", "n", "g", ":", "a", "b", "c">>
U_blank == <<" ">>

\* the things the server knows
ThingIds == {I_12345, I_7}

\* the largest number of lines in the batch text area
MaxBatch == 2

\* the largest number of clicks on "Download and Extract"
MaxClicks == 1

\* what the URL field may hold
UrlInputs == {<<>>, U_12345, U_7, U_elsewhere, U_no_id}

BatchLines == {U_12345, U_7, U_elsewhere, U_no_id, U_blank}

\* the lines joined by newlines, as the text area yields them
RECURSIVE JoinLines(_)
JoinLines(lines) ==
    IF lines = <<>> THEN <<>>
    ELSE IF Len(lines) = 1 THEN lines[1]
    ELSE lines[1] \o <<"\n">> \o JoinLines(Tail(lines))

\* what the text area may hold
BatchInputs ==
    { JoinLines(lines) : lines \in UNION { [1..n -> BatchLines] : n \in 0..MaxBatch } }

\* downloads_dir as main leaves it, empty or with the category Toys
DownloadFsFamily ==
    { [dirs |-> {<<>>} \cup cats, files |-> {}, text |-> <<>>, denied |-> {}, eio |-> {}] :
        cats \in {{}, {<<N_Toys>>}} }

InitDownload ==
    /\ fs \in DownloadFsFamily
    /\ dirOrder = <<>>
    /\ ThumbIdle /\ ReadmeIdle /\ FilesIdle /\ BrowserIdle
    /\ LookupIdle /\ PreviewIdle /\ NoMeshes
    /\ server \in [ThingIds -> Outcomes]
    /\ tmp_files = {} /\ d_clicks = 0
    /\ d_url = <<>> /\ d_batch = <<>> /\ d_choice = <<>> /\ d_category = <<>>
    /\ d_fetched = <<>> /\ d_messages = <<>> /\ d_raised = "nothing"

\* one run of downloader_page in which "Download and Extract" is clicked,
\* with the URL field, the text area, the selectbox and the new-category
\* field as given (the field is shown only for "+ Create new category")
ClickDownload(thingiverse_url, batch_urls, choice, new_category) ==
    /\ d_clicks < MaxClicks
    /\ choice \in CategoryOptions(fs)
    /\ choice # S_CreateNew => new_category = <<>>
    /\ \E r \in {Click(fs, tmp_files, server, thingiverse_url, batch_urls,
                       SelectedCategory(choice, new_category))} :
         /\ fs' = r.fs
         /\ tmp_files' = r.tmp
         /\ d_fetched' = r.fetched
         /\ d_messages' = r.messages
         /\ d_raised' = r.raised
    /\ d_clicks' = d_clicks + 1
    /\ d_url' = thingiverse_url
    /\ d_batch' = batch_urls
    /\ d_choice' = choice
    /\ d_category' = SelectedCategory(choice, new_category)
    /\ UNCHANGED <<dirOrder, server, meshVars, lookupVars, previewVars, thumbVars,
                   readmeVars, filesVars, browserVars, export_data>>

\* a click with an empty text area, and a click with text in it (the URL
\* field may then hold anything, one URL stands for it)
NextDownload ==
    \/ \E thingiverse_url \in UrlInputs,
          choice \in {N_Uncategorized, N_Toys, S_CreateNew}, new_category \in {<<>>, N_Toys} :
           ClickDownload(thingiverse_url, <<>>, choice, new_category)
    \/ \E thingiverse_url \in {<<>>, U_7}, batch_urls \in BatchInputs \ {<<>>},
          choice \in {N_Uncategorized, N_Toys, S_CreateNew}, new_category \in {<<>>, N_Toys} :
           ClickDownload(thingiverse_url, batch_urls, choice, new_category)

SpecDownload == InitDownload /\ [][NextDownload]_vars

(***************************************************************************)
(* The browser page over a storage with unreadable entries                 *)
(***************************************************************************)

T_GearFFBox == <<"g", "e", "a", "r", "0xFF", "b", "o", "x">>

\* what stands at Toys/thing_12345/README.txt: nothing, a readable text, a
\* text with an invalid byte, a file that may not be opened, a file whose
\* read fails, a directory
ReadmeKinds == {"absent", "text", "bytes", "denied", "eio", "dir"}

\* the directories one of which may have lost its permissions
LockableDirs ==
    {<<N_Toys>>, <<N_Uncategorized>>, <<N_Toys, N_thing_12345>>,
     <<N_Toys, N_thing_12345, N_images>>, <<N_Toys, N_thing_12345, N_files>>}

\* Toys/thing_12345 holds images/b.png, model.stl, files/Part.STL and the
\* description candidate; Uncategorized/widget holds spin.obj and readme.md
FaultFs(readme, locked) ==
    LET thing == <<N_Toys, N_thing_12345>>
        candidate == thing \o <<F_README_txt>>
        dirs == {<<>>, <<N_Toys>>, thing, thing \o <<N_images>>, thing \o <<N_files>>,
                 <<N_Uncategorized>>, <<N_Uncategorized, N_widget>>}
                  \cup (IF readme = "dir" THEN {candidate} ELSE {})
        files == {thing \o <<N_images, F_b_png>>, thing \o <<F_model_stl>>,
                  thing \o <<N_files, F_Part_STL>>,
                  <<N_Uncategorized, N_widget, F_spin_obj>>,
                  <<N_Uncategorized, N_widget, F_readme_md>>}
                   \cup (IF readme \in {"text", "bytes", "denied", "eio"}
                         THEN {candidate} ELSE {})
    IN  [dirs |-> dirs,
         files |-> files,
         text |-> [p \in files |->
                     IF p = candidate
                     THEN (IF readme = "bytes" THEN T_GearFFBox ELSE T_Stand)
                     ELSE IF Last(p) = F_readme_md THEN T_GearBox
                     ELSE <<>>],
         denied |-> locked \cup (IF readme = "denied" THEN {candidate} ELSE {}),
         eio |-> IF readme = "eio" THEN {candidate} ELSE {}]

FaultFsFamily ==
    { FaultFs(readme, locked) :
        readme \in ReadmeKinds,
        locked \in {{}} \cup { {d} : d \in LockableDirs } }

FaultOrder ==
    <<N_Uncategorized, N_Toys, N_widget, N_thing_12345, N_images, N_files,
      F_README_txt, F_readme_md, F_model_stl, F_Part_STL, F_spin_obj, F_b_png>>

InitFaults ==
    /\ fs \in FaultFsFamily
    /\ dirOrder \in {FaultOrder, Reverse(FaultOrder)}
    /\ ThumbIdle /\ ReadmeIdle /\ FilesIdle /\ BrowserIdle
    /\ LookupIdle /\ PreviewIdle /\ DownloadIdle
    /\ geometry = GeometryOf(fs, Content(M_Tetra, TRUE, TRUE))
    /\ finite_check = TRUE

NextFaults ==
    \/ \E text \in {<<>>, Q_box} : RenderBrowser(text)
    \/ \E b \in 1..Len(gallery) : ViewDetails(b, 1)
    \/ BackToGallery

SpecFaults == InitFaults /\ [][NextFaults]_vars

(***************************************************************************)
(* Thumbnail claims                                                        *)
(***************************************************************************)

\* the entries of the scanned directory itself that strategy k looks for
OwnCandidates(k) ==
    LET tid == IF t_id # None THEN t_id ELSE <<>>
        images_dir == t_dir \o <<N_images>>
    IN  CASE k = 1 -> { images_dir \o <<n>> :
                          n \in Glob1(fs, images_dir, P_star_png, FALSE)
                                  \cup Glob1(fs, images_dir, P_star_jpg, FALSE)
                                  \cup Glob1(fs, images_dir, P_star_jpeg, FALSE) }
          [] k = 2 -> { t_dir \o <<n>> : n \in Glob1(fs, t_dir, P_Thumbnail, FALSE) }
          [] k = 3 -> { t_dir \o <<n>> :
                          n \in Glob1(fs, t_dir, <<"*">> \o tid \o P_IdTail, FALSE) }
          [] k = 4 -> { t_dir \o <<n>> : n \in Glob1(fs, t_dir, P_star_png, FALSE) }

\* C1: after a thumbnail scan of a model directory the result is a match of
\* the first of the four strategies (images, *_Thumbnail*.png,
\* *<id>*Thumbnail*.png, *.png) that has a match in that directory, and is
\* absent when none has; so without an images directory a root
\* *_Thumbnail*.png file wins over every other root .png.
C1_FirstStrategyWins ==
    t_pc = "done" =>
        LET hits == { k \in 1..4 : OwnCandidates(k) # {} }
        IN  IF hits = {} THEN t_result = None
            ELSE t_result \in OwnCandidates(CHOOSE k \in hits : \A m \in hits : k <= m)

ImageExtensions == {<<".", "p", "n", "g">>, <<".", "j", "p", "g">>, <<".", "j", "p", "e", "g">>}

\* C2: when the images subdirectory of the scanned model holds a file with
\* an image extension, the thumbnail is the lexicographically first such
\* file of that subdirectory, whatever the model root holds.
C2_ImagesDirFirst ==
    LET images_dir == t_dir \o <<N_images>>
        imgs == { images_dir \o <<n>> :
                    n \in { n \in ListDir(fs, images_dir) : Splitext(n) \in ImageExtensions } }
    IN  (t_pc = "done" /\ imgs # {}) => t_result = SortedFirst(imgs)

\* C3: when the directory name holds no digit, strategy 3 contributes
\* nothing: the thumbnail is what strategies 1, 2 and 4 alone would give.
C3_NoIdSkipsStrategy3 ==
    (t_pc = "done" /\ t_id = None) =>
        LET hits == { k \in {1, 2, 4} : Strategy(fs, t_dir, <<>>, k) # None }
        IN  IF hits = {} THEN t_result = None
            ELSE t_result = Strategy(fs, t_dir, <<>>, CHOOSE k \in hits : \A m \in hits : k <= m)

(***************************************************************************)
(* Description claims                                                      *)
(***************************************************************************)

\* the files anywhere below directory top
TreeFiles(top) ==
    { p \in fs.files : Len(p) > Len(top) /\ SubSeq(p, 1, Len(top)) = top }

Pos(n) == CHOOSE i \in 1..Len(dirOrder) : dirOrder[i] = n

\* file p is met before file q by a top-down walk: at the first component
\* where they part, a file of that directory precedes everything in its
\* subdirectories, and otherwise the storage's listing order decides
WalkBefore(p, q) ==
    LET k == CHOOSE i \in 1..Len(p) : p[i] # q[i] /\ \A j \in 1..(i - 1) : p[j] = q[j]
    IN  IF (Len(p) = k) # (Len(q) = k) THEN Len(p) = k
        ELSE Pos(p[k]) < Pos(q[k])

RootCandidates ==
    { i \in 1..Len(readme_patterns) : readme_patterns[i] \in ListDir(fs, r_dir) }

NameMatches(p) ==
    \E i \in 1..Len(readme_patterns) : Lower(Last(p)) = Lower(readme_patterns[i])

\* C4: when a listed candidate name exists in the model root, the
\* description file is the root entry with the earliest listed name that
\* exists there (names compared as spelled), never a file of a subdirectory.
C4_RootCandidateWins ==
    (r_pc = "done" /\ RootCandidates # {}) =>
        \E i \in RootCandidates :
            /\ \A j \in RootCandidates : i <= j
            /\ r_path = r_dir \o <<readme_patterns[i]>>

C4_Witness ==
    /\ r_pc = "done"
    /\ {F_readme_txt, F_README_md} \subseteq ListDir(fs, r_dir)
    /\ Pos(F_README_md) < Pos(F_readme_txt)
    /\ r_dir \o <<N_docs, F_readme_md>> \in fs.files
    /\ r_path = r_dir \o <<F_readme_txt>>
    /\ r_content = PathStr(r_path)

HasExtension(n, e) ==
    /\ Len(n) > Len(e)
    /\ Lower(SubSeq(n, Len(n) - Len(e) + 1, Len(n))) = e
    /\ \E k \in 1..(Len(n) - Len(e)) : n[k] # "."

\* C6: the enumeration holds exactly one entry for every file of the tree
\* whose extension is .stl, .obj or .3mf without regard to case, no other
\* entry, and each relative path is the absolute path taken relative to the
\* model root.
C6_ModelFilesExact ==
    f_pc = "done" =>
        LET geom == { p \in TreeFiles(f_dir) :
                        \E e \in {E_stl, E_obj, E_3mf} : HasExtension(Last(p), e) }
        IN  /\ \A p \in geom :
                 Cardinality({ i \in DOMAIN f_result : f_result[i].abs = p }) = 1
            /\ \A i \in DOMAIN f_result :
                 /\ f_result[i].abs \in geom
                 /\ f_result[i].abs = f_dir \o f_result[i].rel

C6_Witness ==
    /\ f_pc = "done"
    /\ Len(f_result) = 2
    /\ \E i \in DOMAIN f_result : f_result[i].rel = <<N_files, N_old_stl, F_Part_STL>>
    /\ \E i \in DOMAIN f_result : f_result[i].rel = <<F_part_3mf>>
    /\ f_dir \o <<F_dot_stl>> \in fs.files
    /\ f_dir \o <<N_files, F_model_stl_bak>> \in fs.files

(***************************************************************************)
(* Catalog claims                                                          *)
(***************************************************************************)

\* every model_info the page holds: the cards of the gallery and the
\* session's selected model
HeldInfos ==
    UNION { Range(gallery[b].category_models) : b \in DOMAIN gallery }
      \cup Range(selected_model)

\* the entries of the export snapshot
ExportEntries ==
    UNION { Range(export_data.categories[c]) : c \in DOMAIN export_data.categories }

\* the geometry files anywhere below a model directory
GeometryFiles(model_path) ==
    { p \in TreeFiles(model_path) :
        \E e \in {E_stl, E_obj, E_3mf} : HasExtension(Last(p), e) }

\* C7: every model record held in the gallery or in the selected-model slot
\* has model_count equal to the length of its model_files, and every entry
\* of the export snapshot has model_count equal to the number of geometry
\* files of its model directory.
C7_ModelCountMatches ==
    /\ \A m \in HeldInfos :
         /\ m.model_count = Len(m.model_files)
         /\ m.model_count = Cardinality(GeometryFiles(m.path))
    /\ \A x \in ExportEntries : x.model_count = Cardinality(GeometryFiles(x.path))

C7_Witness ==
    /\ view = "detail"
    /\ selected_model # <<>>
    /\ selected_model[1].name = N_widget
    /\ selected_model[1].model_count = 2
    /\ export_data.done
    /\ \E x \in ExportEntries : x.name = N_v2_gear_10 /\ x.model_count = 1

\* t is the first maximal run of digits of name n, absent when n has none
IsFirstDigitRun(n, t) ==
    IF \A i \in 1..Len(n) : n[i] \notin Digits THEN t = None
    ELSE \E b \in 1..Len(n) : \E e \in b..Len(n) :
            /\ t = SubSeq(n, b, e)
            /\ \A k \in b..e : n[k] \in Digits
            /\ \A k \in 1..(b - 1) : n[k] \notin Digits
            /\ e = Len(n) \/ n[e + 1] \notin Digits

\* C8: the identifier of every model record and export entry is the first
\* maximal run of decimal digits of its directory name, and is absent when
\* the name holds no digit.
C8_IdentifierIsFirstDigitRun ==
    /\ \A m \in HeldInfos : IsFirstDigitRun(m.name, m.thing_id)
    /\ \A x \in ExportEntries : IsFirstDigitRun(x.name, x.thing_id)

C8_Witness ==
    /\ \E m \in HeldInfos :
         m.name = N_thing_12345 /\ m.thing_id = <<"1", "2", "3", "4", "5">>
    /\ \E m \in HeldInfos : m.name = N_v2_gear_10 /\ m.thing_id = <<"2">>
    /\ \E m \in HeldInfos : m.name = N_widget /\ m.thing_id = None

CategoryDirs == { p[1] : p \in { p \in fs.dirs : Len(p) = 1 } }

ModelDirNames(c) == { p[2] : p \in { p \in fs.dirs : Len(p) = 2 /\ p[1] = c } }

\* the blocks list each model directory once, and with an empty search box
\* one model record per model directory
BlocksListModels ==
    \A b \in DOMAIN gallery :
        LET g == gallery[b]
        IN  /\ Range(g.model_dirs) = ModelDirNames(g.category)
            /\ Len(g.model_dirs) = Cardinality(ModelDirNames(g.category))
            /\ search_text = <<>> =>
                 /\ [i \in 1..Len(g.category_models) |-> g.category_models[i].name]
                      = g.model_dirs
                 /\ \A i \in DOMAIN g.category_models :
                      /\ g.category_models[i].path = <<g.category, g.category_models[i].name>>
                      /\ g.category_models[i].category = g.category

\* C9 as stated: the gallery has one Category for every immediate
\* subdirectory of the root, also for one without model subdirectories, and
\* in each one Model per immediate subdirectory.
C9_EveryDirIsCategory ==
    view = "gallery" =>
        /\ { gallery[b].category : b \in DOMAIN gallery } = CategoryDirs
        /\ Len(gallery) = Cardinality(CategoryDirs)
        /\ BlocksListModels

\* C9 amended: every immediate subdirectory of the root is taken as a
\* category (plain files are not), the gallery has one Category block for
\* each of them that has at least one model subdirectory, a directory
\* without model subdirectories is left out, and each block has one Model
\* per immediate subdirectory of its category.
C9_NonEmptyDirsAreCategories ==
    view = "gallery" =>
        /\ Range(categories) = CategoryDirs
        /\ Len(categories) = Cardinality(CategoryDirs)
        /\ { gallery[b].category : b \in DOMAIN gallery }
             = { c \in CategoryDirs : ModelDirNames(c) # {} }
        /\ Len(gallery) = Cardinality({ c \in CategoryDirs : ModelDirNames(c) # {} })
        /\ BlocksListModels

C9_Witness ==
    /\ view = "gallery"
    /\ search_text = <<>>
    /\ <<F_notes_txt>> \in fs.files
    /\ N_Toys \in CategoryDirs /\ ModelDirNames(N_Toys) = {}
    /\ Len(gallery) = 1
    /\ gallery[1].category = N_Uncategorized
    /\ Len(gallery[1].category_models) = 2

\* C10: with search text f, a model directory of a listed category is among
\* the category's cards if and only if f is empty or lower(f) occurs in the
\* lowered directory name, in the identifier, or in the lowered description
\* text of that model; nothing else decides, and no model is listed twice.
C10_FilterIffMatch ==
    view = "gallery" =>
        \A b \in DOMAIN gallery :
            LET g == gallery[b]
                kept == { g.category_models[i].name : i \in DOMAIN g.category_models }
            IN  /\ Cardinality(kept) = Len(g.category_models)
                /\ \A m \in Range(g.model_dirs) :
                     LET id == FirstDigitRun(m)
                         text == get_readme_content(fs, dirOrder, <<g.category, m>>).content
                     IN  m \in kept <=>
                           \/ search_text = <<>>
                           \/ Contains(Lower(m), Lower(search_text))
                           \/ id # None /\ Contains(id, Lower(search_text))
                           \/ Contains(Lower(text), Lower(search_text))

C10_Witness ==
    /\ view = "gallery"
    /\ search_text = Q_box
    /\ \E b \in DOMAIN gallery :
         /\ Len(gallery[b].model_dirs) = 2
         /\ Len(gallery[b].category_models) = 1
         /\ gallery[b].category_models[1].name = N_thing_12345

(***************************************************************************)
(* Order of the gallery                                                    *)
(***************************************************************************)

\* C11: the category blocks of the gallery are in ascending name order, and
\* the cards of a block are in the order the listing of the category
\* directory gave their directories, whatever the search text.
C11_SortedCategoriesScanOrderModels ==
    view = "gallery" =>
        /\ \A a, b \in DOMAIN gallery :
              a < b => StrLess(gallery[a].category, gallery[b].category)
        /\ \A b \in DOMAIN gallery :
              LET cards == gallery[b].category_models
              IN  \A i, j \in DOMAIN cards :
                      i < j => Pos(cards[i].name) < Pos(cards[j].name)

C11_Witness ==
    /\ view = "gallery"
    /\ search_text = Q_GEAR
    /\ Len(gallery) = 2
    /\ \E b \in DOMAIN gallery :
         LET cards == gallery[b].category_models
         IN  /\ Len(cards) = 2
             /\ StrLess(cards[2].name, cards[1].name)

(***************************************************************************)
(* Lookup by name                                                          *)
(***************************************************************************)

\* the categories that hold a model directory of the looked-up name
Holders == { c \in CategoryDirs : <<c, l_name>> \in fs.dirs }

HasWarning(kind) == \E i \in DOMAIN l_warnings : l_warnings[i].kind = kind

\* the looked-up model is a model directory of the hinted category
InHintedCategory == l_hint # None /\ l_hint \in Holders

\* C12: when the named model exists in the hinted category, the selection
\* is that model in the hinted category, nothing is reported as not found
\* and no entry of downloads_dir is searched, also when another category
\* holds a model of the same name.
C12_HintedCategoryWins ==
    (view # "start" /\ l_name # None /\ InHintedCategory) =>
        /\ l_found
        /\ Len(selected_model) = 1
        /\ selected_model[1].name = l_name
        /\ selected_model[1].category = l_hint
        /\ selected_model[1].path = <<l_hint, l_name>>
        /\ l_warnings = <<>>
        /\ l_searched = <<>>

C12_Witness ==
    /\ view = "detail"
    /\ l_name = N_widget
    /\ l_hint = N_Toys
    /\ Holders = {N_Toys, N_Uncategorized}
    /\ Pos(N_Uncategorized) < Pos(N_Toys)
    /\ selected_model[1].category = N_Toys

\* C13: when the named model is not in the hinted category, or no hint is
\* given, every category is searched and the selection is the model in the
\* first category, in listing order, that holds it; "not found in the
\* hinted category" is reported exactly when a hint was given, and "not
\* found in any category" exactly when no category holds the model.
C13_SearchAllCategories ==
    (view # "start" /\ l_name # None /\ ~InHintedCategory) =>
        /\ HasWarning("not_in_category") <=> l_hint # None
        /\ HasWarning("not_in_any") <=> Holders = {}
        /\ l_found <=> Holders # {}
        /\ Holders = {} => CategoryDirs \subseteq Range(l_searched)
        /\ Holders # {} =>
             LET first == CHOOSE c \in Holders : \A d \in Holders : Pos(c) <= Pos(d)
             IN  /\ Len(selected_model) = 1
                 /\ selected_model[1].name = l_name
                 /\ selected_model[1].category = first
                 /\ selected_model[1].path = <<first, l_name>>

(***************************************************************************)
(* Preview claims                                                          *)
(***************************************************************************)

\* the viewer tab has been drawn for a file
Shown == view = "detail" /\ p_pc = "done" /\ p_path # None

PreviewedExt == Lower(Splitext(Last(p_path)))

ErrorMessages == { i \in DOMAIN p_messages : p_messages[i].level = "error" }

Carries(i, kind) ==
    \E j \in DOMAIN p_messages[i].values : p_messages[i].values[j].kind = kind

\* the vertices trimesh keeps of the previewed file, and their extents
SourceVertices == MergeVertices(FlatVertices(geometry[p_path].triangles))

SourceExtents == Extents(SourceVertices)

SourceLargest == MaxOfSet({ SourceExtents[k] : k \in 1..3 })

\* the figure comes from the branch that normalizes
Normalized == Shown /\ p_fig # None /\ p_fig.loader = "trimesh"

C15_CorruptStlReportsPathAndCause ==
    (Shown /\ PreviewedExt = E_stl /\ ~geometry[p_path].trimesh_ok) =>
        /\ ErrorMessages # {}
        /\ \E i \in ErrorMessages :
             /\ Carries(i, "exception")
             /\ \E j \in DOMAIN p_messages[i].values :
                  /\ p_messages[i].values[j].kind = "path"
                  /\ p_messages[i].values[j].of = p_path

\* C16: after the normalization the mean of the vertex positions is at the
\* origin, within 1e-6 x 100 on every axis.
C16_MeanVertexAtOrigin ==
    (Normalized /\ p_fig.den # 0) =>
        \A k \in 1..3 :
            LET total == SumInts([i \in DOMAIN p_fig.vertices |-> p_fig.vertices[i][k]])
                size == IF total < 0 THEN 0 - total ELSE total
            IN  size * 10000 <= Len(p_fig.vertices) * p_fig.den

\* C17: for a mesh whose largest extent L is not zero, the normalization
\* multiplies every coordinate difference by 100 / L: the largest extent of
\* the figure is 100 and every extent is 100 / L times what it was.
C17_UniformScaleToTarget ==
    (Normalized /\ SourceLargest # 0) =>
        LET out == p_fig.vertices
            den == p_fig.den
        IN  /\ den > 0
            /\ Len(out) = Len(SourceVertices)
            /\ MaxOfSet({ Extents(out)[k] : k \in 1..3 }) = 100 * den
            /\ \A k \in 1..3 : Extents(out)[k] * SourceLargest = 100 * den * SourceExtents[k]
            /\ \A i, j \in DOMAIN out : \A k \in 1..3 :
                 (out[i][k] - out[j][k]) * SourceLargest
                   = 100 * den * (SourceVertices[i][k] - SourceVertices[j][k])

C17_Witness ==
    /\ Normalized
    /\ SourceExtents = <<1, 2, 1>>
    /\ \E i, j \in DOMAIN p_fig.vertices :
         /\ SourceVertices[i][2] - SourceVertices[j][2] = 2
         /\ p_fig.vertices[i][2] - p_fig.vertices[j][2] = 100 * p_fig.den
         /\ p_fig.vertices[i][1] - p_fig.vertices[j][1]
              = 50 * p_fig.den * (SourceVertices[i][1] - SourceVertices[j][1])

\* C18: for a mesh whose extents are all zero, the preview shows a
\* DegenerateGeometry warning and no error, and plots a figure with finite
\* vertices that differ from the input by a translation only.
C18_DegenerateSkipsRescale ==
    (Shown /\ PreviewedExt = E_stl /\ geometry[p_path].trimesh_ok
       /\ geometry[p_path].triangles # <<>> /\ SourceLargest = 0) =>
        /\ \E i \in DOMAIN p_messages : p_messages[i].level = "warning"
        /\ ErrorMessages = {}
        /\ p_fig # None
        /\ p_fig.den # 0
        /\ \A i, j \in DOMAIN p_fig.vertices : \A k \in 1..3 :
             p_fig.vertices[i][k] = p_fig.vertices[j][k]

\* the opacity asked for, brought into the range of the slider
Clamped(opacity) ==
    IF opacity < MinOpacity THEN MinOpacity
    ELSE IF opacity > MaxOpacity THEN MaxOpacity ELSE opacity

\* C19: whatever the style, the opacity and the loader that made the mesh,
\* the plotted figure has the opacity the user asked for, within 0.1 to 1.0.
C19_OpacityApplied ==
    (Shown /\ p_fig # None) =>
        /\ p_fig.opacity = Clamped(p_opacity)
        /\ p_fig.opacity \in MinOpacity..MaxOpacity

C19_Witness ==
    /\ Shown
    /\ p_fig # None
    /\ p_fig.loader = "numpy-stl"
    /\ p_option = O_Plasma
    /\ p_opacity = 3
    /\ p_fig.opacity = 3

GradientOptions == {O_Viridis, O_Plasma, O_Inferno, O_Magma, O_Cividis, O_Rainbow}

\* C20: the plotted figure has one of two shapes: for a gradient style the
\* z coordinate of every vertex as scalar field, with the gradient of that
\* name and no single color; for a solid style one color, without scalar
\* field and without gradient.  Also for a mesh of the fallback loader.
C20_ColorSpecShape ==
    (Shown /\ p_fig # None) =>
        IF p_option \in GradientOptions
        THEN /\ p_fig.intensity = [i \in DOMAIN p_fig.vertices |-> p_fig.vertices[i][3]]
             /\ p_fig.vertices # <<>> => p_fig.intensity # None
             /\ p_fig.colorscale = Lower(p_option)
             /\ p_fig.color = Unset
        ELSE /\ p_fig.color = IF p_option = O_SolidBlue THEN "royalblue" ELSE "mediumseagreen"
             /\ p_fig.intensity = None
             /\ p_fig.colorscale = None

(***************************************************************************)
(* Failure claims                                                          *)
(***************************************************************************)

\* the cards of the gallery
Cards == UNION { Range(gallery[b].category_models) : b \in DOMAIN gallery }

\* open() or read() of the file fails
Unreadable(p) == p \in fs.denied \cup fs.dirs \cup fs.eio

StartsWith(s, prefix) == Len(s) >= Len(prefix) /\ SubSeq(s, 1, Len(prefix)) = prefix

\* the image files of the images directory of a model that a listing shows
ListedImages(model_path) ==
    { p \in fs.files :
        /\ Front(p) = model_path \o <<N_images>>
        /\ Searchable(fs, p) /\ Front(p) \notin fs.denied
        /\ \E e \in ImageExtensions : Splitext(Last(p)) = e }

\* C21: every model directory of a listed category has its card when nothing
\* is searched for; a card whose description file cannot be read (no
\* permission, a directory, an I/O error) carries "Error reading README: "
\* and the cause as its content, together with the geometry files a walk
\* reaches and a thumbnail when the images directory shows one; the content
\* of a readable description is its bytes with every invalid byte replaced
\* by U+FFFD.
C21_ReadFailureKeepsModel ==
    view \in {"gallery", "raised"} =>
        /\ search_query = <<>> =>
             \A b \in DOMAIN gallery : \A d \in Range(gallery[b].model_dirs) :
                \E m \in Range(gallery[b].category_models) : m.name = d
        /\ \A m \in Cards :
             m.readme_path # None =>
                IF Unreadable(m.readme_path)
                THEN /\ StartsWith(m.readme_content, ErrorPrefix)
                     /\ Len(m.readme_content) > Len(ErrorPrefix)
                     /\ m.model_count =
                          Cardinality({ p \in GeometryFiles(m.path) :
                                          \A i \in 0..(Len(p) - 1) :
                                             SubSeq(p, 1, i) \notin fs.denied })
                     /\ ListedImages(m.path) # {} => m.thumbnail_path \in ListedImages(m.path)
                ELSE LET bytes == fs.text[m.readme_path]
                     IN  /\ Len(m.readme_content) = Len(bytes)
                         /\ \A i \in 1..Len(bytes) :
                              m.readme_content[i] =
                                IF bytes[i] \in {"0xFE", "0xFF"} THEN "U+FFFD" ELSE bytes[i]

C21_Witness ==
    /\ view = "gallery"
    /\ \E m \in Cards :
         /\ m.name = N_thing_12345
         /\ m.readme_path \in fs.denied
         /\ StartsWith(m.readme_content, ErrorPrefix \o PermissionDeniedMsg)
         /\ m.model_count = 2
         /\ m.thumbnail_path = m.path \o <<N_images, F_b_png>>

\* C22: a gallery build raises nothing, and every category with model
\* directories whose listing succeeds has its block, whatever else on the
\* storage cannot be listed.
C22_DiscoveryFailuresSwallowed ==
    view \in {"gallery", "raised"} =>
        /\ view = "gallery"
        /\ \A c \in Range(categories) :
             (~ListDirFails(fs, <<c>>) /\ ModelDirNames(c) # {}) =>
                \E b \in DOMAIN gallery : gallery[b].category = c

(***************************************************************************)
(* Downloader claims                                                       *)
(***************************************************************************)

\* "Download and Extract" has been clicked; with text in the text area
Clicked == d_clicks > 0

ClickedBatch == Clicked /\ Strip(d_batch) # <<>>

\* the thing ids of the valid URLs of the batch, in the order of its lines
ValidIds ==
    LET lines == SplitLines(Strip(d_batch))
        valid == SelectSeq(lines, LAMBDA u : is_valid_thingiverse_url(u)
                                              /\ extract_thing_id(u) # None)
    IN  [i \in 1..Len(valid) |-> extract_thing_id(valid[i])]

\* C23: after a click in batch mode the things requested from the server
\* are exactly the things of the valid URLs of the batch, one request each
\* in the order of the lines, and no exception left the handler.
C23_OneAttemptPerValidUrl ==
    ClickedBatch => d_fetched = ValidIds /\ d_raised = "nothing"

\* the name of the archive file the single download writes
ZipName(n) == n \o S_dot_zip

\* C24: after a click every model directory below a category is the
\* directory of a thing whose archive the server delivers as a zip, and it
\* holds no thing_<id>.zip.
C24_ModelDirOnlyAfterSuccess ==
    Clicked =>
        \A p \in { q \in fs.dirs : Len(q) = 2 } :
            /\ \E id \in ThingIds : p[2] = ThingName(id) /\ server[id] = "zip"
            /\ p \o <<ZipName(p[2])>> \notin fs.files

\* C25: in batch mode every "Successfully downloaded and extracted" message
\* names a thing whose archive was a zip and was extracted.
C25_SuccessOnlyWhenExtracted ==
    ClickedBatch =>
        \A i \in DOMAIN d_messages :
            d_messages[i].text = "Successfully downloaded and extracted thing_{thing_id}." =>
                /\ OutcomeOf(server, d_messages[i].values[1]) = "zip"
                /\ <<d_category, ThingName(d_messages[i].values[1]), F_model_stl>> \in fs.files

\* C26: no temporary file of download_and_extract is left on the storage.
C26_NoTemporaryFileLeft == tmp_files = {}

\* C27: no directory named by the selectbox entry "+ Create new category"
\* exists, and nothing was downloaded into one.
C27_CategoryIsRealName ==
    Clicked =>
        /\ d_category # S_CreateNew
        /\ \A p \in fs.dirs \cup fs.files : Len(p) >= 1 => p[1] # S_CreateNew
====
